---- MODULE Spec2Model ----
(***************************************************************************)
(* Model of the WAAM alloy-data extraction pipeline                         *)
(* (src/extract_alloy_data.py): the Numeric Value Extractor, the Alloy      *)
(* Classifier and the Record Flattener.                                     *)
(*                                                                          *)
(* Python strings are modelled as sequences of one-character strings,       *)
(* Python floats as exact rationals n/d in lowest terms plus the special    *)
(* values nan, inf and -inf.  An exception is modelled as an explicit       *)
(* outcome ("raise") so that "never raises" is a checkable statement.       *)
(***************************************************************************)
EXTENDS Integers, Sequences, FiniteSets, TLC

VARIABLES
    value_str,    \* extract_numeric_value: the argument of the current call
    ret,          \* extract_numeric_value: the outcome of the last call
    epc,          \* extract_numeric_value: "idle" | "call" | "done"
    calls,        \* number of completed extractor calls in this behaviour
    material,     \* classify_alloy: first argument
    composition,  \* classify_alloy: second argument
    label,        \* classify_alloy: outcome of the call
    cpc,          \* classify_alloy: "idle" | "call" | "done"
    data,         \* main: the loaded input store (sequence of Raw Records)
    entry_i,      \* main: index of the Raw Record of the outer loop
    item_j,       \* main: index of the Data Item of the inner loop
    alloy_data,   \* main: category label -> sequence of Flat Records
    key_order,    \* main: category labels in first-insertion order
    mpc,          \* main: "idle" | "start" | "loop" | "write" | "done"
                  \*       | "exited" | "crashed"
    input_file,   \* main: the file WAAM.json
    output_file,  \* main: the file WAAM_alloy_data.json (the derived store)
    output_before, \* main: output_file as it was when the run started
    exit_code,    \* main: exit status of the run (-1 while it runs)
    runs,         \* main: number of runs started
    strength_in,  \* extract_strength_data: the argument of the call
    strength_ret, \* extract_strength_data: the returned 4-tuple
    spc,          \* extract_strength_data: "idle" | "call" | "done"
    store,        \* plotting: the content of WAAM_alloy_data.json
    images,       \* plotting: script -> content of its image file
    plot_pc,      \* plotting: script -> position in its main
    df,           \* plotting: script -> result of load_and_clean_data
    df_filtered,  \* handle_outliers: script -> rows after the manual bound
    iqr_bounds,   \* handle_outliers: script -> column -> <<lower, upper>>
    df_no_outliers, \* handle_outliers: script -> returned rows
    printed,      \* plotting: script -> the statistics printed so far
    authors_input, \* extract_authors_institutes: the file WAAM.json
    authors_institutes, \* extract_authors_institutes: the extracted list
    authors_file, \* extract_authors_institutes: authors_institutes.json
    authors_message, \* extract_authors_institutes: the error printed, or ""
    authors_exit, \* extract_authors_institutes: exit status (-1 while it runs)
    apc           \* extract_authors_institutes: "idle" | "start" | "extracted"
                  \*       | "write" | "ended"

evars == <<value_str, ret, epc, calls>>
cvars == <<material, composition, label, cpc>>
mvars == <<data, entry_i, item_j, alloy_data, key_order, mpc,
           input_file, output_file, output_before, exit_code, runs>>
svars == <<strength_in, strength_ret, spc>>
vars == <<value_str, ret, epc, calls, material, composition, label, cpc,
          data, entry_i, item_j, alloy_data, key_order, mpc,
          input_file, output_file, output_before, exit_code, runs,
          strength_in, strength_ret, spc,
          store, images, plot_pc, df, df_filtered, iqr_bounds,
          df_no_outliers, printed,
          authors_input, authors_institutes, authors_file, authors_message,
          authors_exit, apc>>
pvars == <<store, images, plot_pc, df, df_filtered, iqr_bounds,
           df_no_outliers, printed>>
avars == <<authors_input, authors_institutes, authors_file, authors_message,
           authors_exit, apc>>

\* The variables of the other components, for each component.
ExtractOthers == <<cvars, mvars, svars, pvars, avars>>
ClassifyOthers == <<evars, mvars, svars, pvars, avars>>
MainOthers == <<evars, cvars, svars, pvars, avars>>
StrengthOthers == <<evars, cvars, mvars, pvars, avars>>
PlotOthers == <<evars, cvars, mvars, svars, avars>>
AuthorsOthers == <<evars, cvars, mvars, svars, pvars>>

(***************************************************************************)
(* Bounds of the model.                                                     *)
(***************************************************************************)
MaxLen == 4
MaxWords == 2
MaxEntries == 2
MaxItems == 3
MaxRows == 4

(***************************************************************************)
(* Characters and strings.                                                  *)
(***************************************************************************)
Digits == {"0", "1", "2", "3", "4", "5", "6", "7", "8", "9"}

DigitVal(c) ==
    CASE c = "0" -> 0 [] c = "1" -> 1 [] c = "2" -> 2 [] c = "3" -> 3
      [] c = "4" -> 4 [] c = "5" -> 5 [] c = "6" -> 6 [] c = "7" -> 7
      [] c = "8" -> 8 [] c = "9" -> 9

DigitChar(n) ==
    CASE n = 0 -> "0" [] n = 1 -> "1" [] n = 2 -> "2" [] n = 3 -> "3"
      [] n = 4 -> "4" [] n = 5 -> "5" [] n = 6 -> "6" [] n = 7 -> "7"
      [] n = 8 -> "8" [] n = 9 -> "9"

\* str.lower() on one character.
LowerChar(c) ==
    CASE c = "A" -> "a" [] c = "B" -> "b" [] c = "C" -> "c" [] c = "D" -> "d"
      [] c = "E" -> "e" [] c = "F" -> "f" [] c = "G" -> "g" [] c = "H" -> "h"
      [] c = "I" -> "i" [] c = "J" -> "j" [] c = "K" -> "k" [] c = "L" -> "l"
      [] c = "M" -> "m" [] c = "N" -> "n" [] c = "O" -> "o" [] c = "P" -> "p"
      [] c = "Q" -> "q" [] c = "R" -> "r" [] c = "S" -> "s" [] c = "T" -> "t"
      [] c = "U" -> "u" [] c = "V" -> "v" [] c = "W" -> "w" [] c = "X" -> "x"
      [] c = "Y" -> "y" [] c = "Z" -> "z"
      [] OTHER -> c

Lower(s) == [i \in 1..Len(s) |-> LowerChar(s[i])]

\* Python's  sub in s  on strings.
Contains(s, sub) ==
    \E i \in 0..(Len(s) - Len(sub)) :
        \A k \in 1..Len(sub) : s[i + k] = sub[k]

StartsWith(s, sub) ==
    /\ Len(sub) <= Len(s)
    /\ \A k \in 1..Len(sub) : s[k] = sub[k]

HasChar(s, c) == \E i \in 1..Len(s) : s[i] = c

\* s[a..b] as a sequence (empty when a > b).
Slice(s, a, b) == IF a > b THEN <<>> ELSE SubSeq(s, a, b)

\* str.strip(): whitespace removed at both ends.
RECURSIVE LStrip(_)
LStrip(s) == IF s /= <<>> /\ Head(s) = " " THEN LStrip(Tail(s)) ELSE s

RECURSIVE RStrip(_)
RStrip(s) ==
    IF s /= <<>> /\ s[Len(s)] = " " THEN RStrip(Slice(s, 1, Len(s) - 1)) ELSE s

Strip(s) == RStrip(LStrip(s))

\* str.split(c): the segments between the occurrences of c (at least one).
RECURSIVE Split(_, _)
Split(s, c) ==
    IF ~HasChar(s, c) THEN <<s>>
    ELSE LET i == CHOOSE k \in 1..Len(s) :
                      s[k] = c /\ \A m \in 1..(k - 1) : s[m] /= c
         IN <<Slice(s, 1, i - 1)>> \o Split(Slice(s, i + 1, Len(s)), c)

(***************************************************************************)
(* Python values: str, int, float (finite n/d, nan, inf, -inf) and None.    *)
(* Every value is a record of the same shape so that any two compare.       *)
(***************************************************************************)
RECURSIVE GCD(_, _)
GCD(a, b) == IF b = 0 THEN a ELSE GCD(b, a % b)

Abs(x) == IF x < 0 THEN -x ELSE x

PyStr(s) == [t |-> "str", s |-> s, n |-> 0, d |-> 1]
PyNone == [t |-> "none", s |-> <<>>, n |-> 0, d |-> 1]
PyInt(n) == [t |-> "int", s |-> <<>>, n |-> n, d |-> 1]
PyNaN == [t |-> "nan", s |-> <<>>, n |-> 0, d |-> 1]
PyInf(sign) == [t |-> "inf", s |-> <<>>, n |-> sign, d |-> 1]

\* The float n/d (d > 0), in lowest terms.
PyFloat(n, d) ==
    LET g == GCD(Abs(n), d)
    IN [t |-> "float", s |-> <<>>, n |-> n \div g, d |-> d \div g]

EmptyString == PyStr(<<>>)

IsFinite(v) == v.t \in {"int", "float"}
IsNumber(v) == v.t \in {"int", "float", "nan", "inf"}

\* Python's == between two numbers (5 == 5.0 holds, nan == nan does not).
NumEq(a, b) ==
    \/ IsFinite(a) /\ IsFinite(b) /\ a.n * b.d = b.n * a.d
    \/ a.t = "inf" /\ b.t = "inf" /\ a.n = b.n

\* float addition: val1 + val2.
FloatAdd(a, b) ==
    CASE a.t = "nan" \/ b.t = "nan" -> PyNaN
      [] a.t = "inf" /\ b.t = "inf" -> IF a.n = b.n THEN a ELSE PyNaN
      [] a.t = "inf" -> a
      [] b.t = "inf" -> b
      [] OTHER -> PyFloat(a.n * b.d + b.n * a.d, a.d * b.d)

\* float division by a positive count: x / k.
FloatDiv(a, k) ==
    IF IsFinite(a) THEN PyFloat(a.n, a.d * k) ELSE a

\* Python truthiness of a value:  bool(v).
Truthy(v) ==
    CASE v.t = "none" -> FALSE
      [] v.t = "str" -> v.s /= <<>>
      [] v.t \in {"int", "float"} -> v.n /= 0
      [] OTHER -> TRUE

RECURSIVE Pow10(_)
Pow10(k) == IF k = 0 THEN 1 ELSE 10 * Pow10(k - 1)

RECURSIVE DigitsToNat(_)
DigitsToNat(ds) ==
    IF ds = <<>> THEN 0
    ELSE 10 * DigitsToNat(Slice(ds, 1, Len(ds) - 1)) + DigitVal(ds[Len(ds)])

RECURSIVE NatToDigits(_)
NatToDigits(n) ==
    IF n < 10 THEN <<DigitChar(n)>>
    ELSE NatToDigits(n \div 10) \o <<DigitChar(n % 10)>>

\* The decimal digits of the fraction r/d (0 <= r < d), at most k of them.
RECURSIVE FracDigits(_, _, _)
FracDigits(r, d, k) ==
    IF r = 0 \/ k = 0 THEN <<>>
    ELSE <<DigitChar((10 * r) \div d)>> \o FracDigits((10 * r) % d, d, k - 1)

\* Whether n/d has a finite decimal expansion (d = 2^a * 5^b).
RECURSIVE Terminating(_)
Terminating(d) ==
    IF d = 1 THEN TRUE
    ELSE IF d % 2 = 0 THEN Terminating(d \div 2)
    ELSE IF d % 5 = 0 THEN Terminating(d \div 5)
    ELSE FALSE

\* str(v), as line 18 applies it: repr of a float is the shortest decimal that
\* reads back as the same float ("11.0", "1.5", "-0.25", "nan", "inf").
ToStr(v) ==
    CASE v.t = "str" -> v.s
      [] v.t = "none" -> <<"N", "o", "n", "e">>
      [] v.t = "nan" -> <<"n", "a", "n">>
      [] v.t = "inf" -> IF v.n < 0 THEN <<"-", "i", "n", "f">> ELSE <<"i", "n", "f">>
      [] v.t = "int" ->
            (IF v.n < 0 THEN <<"-">> ELSE <<>>) \o NatToDigits(Abs(v.n))
      [] v.t = "float" ->
            LET a == Abs(v.n)
                f == FracDigits(a % v.d, v.d, 17)
            IN (IF v.n < 0 THEN <<"-">> ELSE <<>>) \o NatToDigits(a \div v.d)
                 \o <<".">> \o (IF f = <<>> THEN <<"0">> ELSE f)

(***************************************************************************)
(* float(s): the conversion of a string, or ValueError (ok = FALSE).        *)
(* Surrounding whitespace and one sign are accepted, then "nan", "inf",     *)
(* "infinity" or a decimal numeral with at least one digit and at most one  *)
(* point.  (Exponents and digit-group underscores need characters that no   *)
(* input of this model contains.)                                           *)
(***************************************************************************)
IsDecimal(s) ==
    /\ \A i \in 1..Len(s) : s[i] \in Digits \cup {"."}
    /\ \E i \in 1..Len(s) : s[i] \in Digits
    /\ Cardinality({i \in 1..Len(s) : s[i] = "."}) <= 1

\* The value of a decimal numeral as a float.
DecimalValue(s) ==
    LET dots == {i \in 1..Len(s) : s[i] = "."}
        p == IF dots = {} THEN Len(s) + 1 ELSE CHOOSE i \in dots : TRUE
        ds == Slice(s, 1, p - 1) \o Slice(s, p + 1, Len(s))
    IN PyFloat(DigitsToNat(ds), Pow10(Len(s) - p + (IF dots = {} THEN 1 ELSE 0)))

Failed == [ok |-> FALSE, v |-> PyNaN]
Parsed(v) == [ok |-> TRUE, v |-> v]

ParseFloat(s) ==
    LET u == Strip(s)
        neg == u /= <<>> /\ Head(u) = "-"
        signed == u /= <<>> /\ Head(u) \in {"-", "+"}
        body == Lower(IF signed THEN Tail(u) ELSE u)
    IN CASE body = <<"n", "a", "n">> -> Parsed(PyNaN)
         [] body \in {<<"i", "n", "f">>, <<"i", "n", "f", "i", "n", "i", "t", "y">>} ->
                Parsed(PyInf(IF neg THEN -1 ELSE 1))
         [] IsDecimal(body) ->
                LET v == DecimalValue(body)
                IN Parsed(IF neg THEN PyFloat(-v.n, v.d) ELSE v)
         [] OTHER -> Failed

(***************************************************************************)
(* re.findall(r'-?\d+\.?\d*', s)[0]: the leftmost match, or <<>> when the   *)
(* pattern matches nowhere.                                                 *)
(***************************************************************************)
\* The last index of the maximal run of digits of s that starts at index a
\* (a - 1 when s[a] is no digit).
RECURSIVE DigitRunEnd(_, _)
DigitRunEnd(s, a) ==
    IF a <= Len(s) /\ s[a] \in Digits THEN DigitRunEnd(s, a + 1) ELSE a - 1

MatchStarts(s) ==
    {i \in 1..Len(s) :
        \/ s[i] \in Digits
        \/ s[i] = "-" /\ i < Len(s) /\ s[i + 1] \in Digits}

HasNumber(s) == MatchStarts(s) /= {}

FirstNumber(s) ==
    IF ~HasNumber(s) THEN <<>>
    ELSE LET i == CHOOSE k \in MatchStarts(s) : \A m \in MatchStarts(s) : k <= m
             a == IF s[i] = "-" THEN i + 1 ELSE i
             e1 == DigitRunEnd(s, a)
             e2 == IF e1 < Len(s) /\ s[e1 + 1] = "." THEN DigitRunEnd(s, e1 + 2)
                   ELSE e1
         IN Slice(s, i, e2)


(***************************************************************************)
(* extract_numeric_value (src/extract_alloy_data.py, lines 12-76).          *)
(* Each rule yields an outcome: Return(v), Pass (control falls through to   *)
(* the next rule) or Raise (an exception leaves the function).              *)
(***************************************************************************)
Return(v) == [k |-> "return", v |-> v]
Pass == [k |-> "pass", v |-> PyNone]
Raise == [k |-> "raise", v |-> PyNone]

\* RangeRule returning the first end of the range instead of the average.
RangeRuleFirstEnd(s) ==
    IF HasChar(s, "-") /\ ~StartsWith(s, <<"-">>)
    THEN LET parts == Split(s, "-")
         IN IF Len(parts) = 2
            THEN LET val1 == ParseFloat(Strip(parts[1]))
                     val2 == ParseFloat(Strip(parts[2]))
                 IN IF val1.ok /\ val2.ok THEN Return(val1.v) ELSE Pass
            ELSE Pass
    ELSE Pass

\* RangeRule without the  except ValueError  of line 28.
RangeRuleUncaught(s) ==
    IF HasChar(s, "-") /\ ~StartsWith(s, <<"-">>)
    THEN LET parts == Split(s, "-")
         IN IF Len(parts) = 2
            THEN LET val1 == ParseFloat(Strip(parts[1]))
                     val2 == ParseFloat(Strip(parts[2]))
                 IN IF val1.ok /\ val2.ok
                    THEN Return(FloatDiv(FloatAdd(val1.v, val2.v), 2))
                    ELSE Raise
            ELSE Pass
    ELSE Pass

\* Lines 20-29: "A-B" with exactly two parts, both convertible: the average.
\* A ValueError of either float() is caught (line 28) and the rule passes.
RangeRule(s) ==
    IF HasChar(s, "-") /\ ~StartsWith(s, <<"-">>)
    THEN LET parts == Split(s, "-")
         IN IF Len(parts) = 2
            THEN LET val1 == ParseFloat(Strip(parts[1]))
                     val2 == ParseFloat(Strip(parts[2]))
                 IN IF val1.ok /\ val2.ok
                    THEN Return(FloatDiv(FloatAdd(val1.v, val2.v), 2))
                    ELSE Pass
            ELSE Pass
    ELSE Pass

\* Lines 34-43 and 50-59: the first number of every segment that has one.
RECURSIVE NumericValues(_)
NumericValues(values) ==
    IF values = <<>> THEN <<>>
    ELSE LET val == Strip(Head(values))
             first == ParseFloat(FirstNumber(val))
         IN (IF HasNumber(val) /\ first.ok THEN <<first.v>> ELSE <<>>)
              \o NumericValues(Tail(values))

\* sum(numeric_values), starting from the int 0 as Python's sum does.
RECURSIVE Sum(_)
Sum(vs) == IF vs = <<>> THEN PyFloat(0, 1) ELSE FloatAdd(Head(vs), Sum(Tail(vs)))

\* ListRule dividing by the number of segments instead of the numbers found.
ListRuleAllSegments(s, sep) ==
    IF HasChar(s, sep)
    THEN LET numeric_values == NumericValues(Split(s, sep))
         IN IF numeric_values /= <<>>
            THEN Return(FloatDiv(Sum(numeric_values), Len(Split(s, sep))))
            ELSE Pass
    ELSE Pass

\* Lines 32-45 (sep = ";") and 48-61 (sep = ","): the average of the numbers
\* found, or fall through when the separator is absent or no number is found.
ListRule(s, sep) ==
    IF HasChar(s, sep)
    THEN LET numeric_values == NumericValues(Split(s, sep))
         IN IF numeric_values /= <<>>
            THEN Return(FloatDiv(Sum(numeric_values), Len(numeric_values)))
            ELSE Pass
    ELSE Pass

\* Lines 64-70: the first number anywhere in the string.
FirstNumberRule(s) ==
    IF HasNumber(s)
    THEN LET first == ParseFloat(FirstNumber(s))
         IN IF first.ok THEN Return(first.v) ELSE Pass
    ELSE Pass

\* Lines 73-76: float(value_str), else the string as it is.
DirectRule(s) ==
    LET direct == ParseFloat(s)
    IN IF direct.ok THEN Return(direct.v) ELSE Return(PyStr(s))

\* The first rule of a sequence of outcomes that does not pass.
RECURSIVE FirstOutcome(_)
FirstOutcome(os) ==
    IF Len(os) = 1 \/ Head(os).k /= "pass" THEN Head(os) ELSE FirstOutcome(Tail(os))

\* Lines 14-15: the guard on an empty argument.
IsEmptyArgument(v) == ~Truthy(v) \/ v = EmptyString

\* extract_numeric_value trying the comma list before the semicolon list.
extract_numeric_value_comma_first(v) ==
    IF IsEmptyArgument(v) THEN Return(EmptyString)
    ELSE LET s == ToStr(v)
         IN FirstOutcome(<<RangeRule(s), ListRule(s, ","), ListRule(s, ";"),
                           FirstNumberRule(s), DirectRule(s)>>)

extract_numeric_value(v) ==
    IF IsEmptyArgument(v) THEN Return(EmptyString)
    ELSE LET s == ToStr(v)
         IN FirstOutcome(<<RangeRule(s), ListRule(s, ";"), ListRule(s, ","),
                           FirstNumberRule(s), DirectRule(s)>>)

(***************************************************************************)
(* The extractor's arguments: every string over Alphabet of length at most  *)
(* MaxLen, a few longer strings, and the numbers and null a JSON document   *)
(* can hold.                                                                *)
(***************************************************************************)
Alphabet == {"0", "1", "2", ".", "-", ";", ",", " ", "a"}

Strings(k) == UNION {[1..m -> Alphabet] : m \in 0..k}

SpecialStrings ==
    { <<"n", "a", "n">>, <<"i", "n", "f">>, <<"-", "i", "n", "f">>,
      <<"1", "0", "-", "1", "2">>, <<"1", "8", ".", "5", "-", "1", "9", ".", "6">>,
      <<"1", ";", "2", ",", "3">>, <<"1", "-", "i", "n", "f">>,
      <<"a", ";", "1", ";", "2">> }

Numbers ==
    { PyInt(0), PyInt(5), PyInt(-3), PyFloat(0, 1), PyFloat(11, 1), PyFloat(3, 2),
      PyFloat(-1, 4), PyNaN, PyInf(1), PyInf(-1) }

Arguments ==
    {PyStr(s) : s \in Strings(MaxLen) \cup SpecialStrings} \cup Numbers \cup {PyNone}

\* A float whose repr is its exact decimal expansion without an exponent:
\* repr switches to exponent notation below 1e-4 and from 1e16 on.
PlainRepr(v) ==
    /\ v.t = "float"
    /\ Terminating(v.d)
    /\ (IF v.n = 0 THEN TRUE ELSE (v.d + Abs(v.n) - 1) \div Abs(v.n) <= 10000)
    /\ Len(NatToDigits(Abs(v.n) \div v.d)) <= 16
    /\ Len(FracDigits(Abs(v.n) % v.d, v.d, 17)) < 17

EIdle == /\ value_str = PyNone /\ ret = Pass /\ epc = "idle" /\ calls = 0
CIdle == /\ material = PyNone /\ composition = PyNone /\ label = "" /\ cpc = "idle"
MIdle ==
    /\ data = <<>> /\ entry_i = 0 /\ item_j = 0
    /\ alloy_data = <<>> /\ key_order = <<>> /\ mpc = "idle"
    /\ input_file = <<>> /\ output_file = <<>> /\ output_before = <<>>
    /\ exit_code = -1 /\ runs = 0
SIdle == /\ strength_in = PyNone /\ strength_ret = <<>> /\ spc = "idle"
PIdle ==
    /\ store = <<>> /\ images = <<>> /\ plot_pc = <<>> /\ df = <<>>
    /\ df_filtered = <<>> /\ iqr_bounds = <<>> /\ df_no_outliers = <<>>
    /\ printed = <<>>

\* Every other component is idle, for each component.
AIdle ==
    /\ authors_input = <<>> /\ authors_institutes = <<>> /\ authors_file = <<>>
    /\ authors_message = "" /\ authors_exit = -1 /\ apc = "idle"

ExtractOthersIdle == CIdle /\ MIdle /\ SIdle /\ PIdle /\ AIdle
ClassifyOthersIdle == EIdle /\ MIdle /\ SIdle /\ PIdle /\ AIdle
MainOthersIdle == EIdle /\ CIdle /\ SIdle /\ PIdle /\ AIdle
StrengthOthersIdle == EIdle /\ CIdle /\ MIdle /\ PIdle /\ AIdle
PlotOthersIdle == EIdle /\ CIdle /\ MIdle /\ SIdle /\ AIdle
AuthorsOthersIdle == EIdle /\ CIdle /\ MIdle /\ SIdle /\ PIdle

InitExtract ==
    /\ value_str \in Arguments
    /\ ret = Pass
    /\ epc = "call"
    /\ calls = 0
    /\ ExtractOthersIdle

\* One call of extract_numeric_value on value_str.
Extract ==
    /\ epc = "call"
    /\ ret' = extract_numeric_value(value_str)
    /\ epc' = "done"
    /\ calls' = calls + 1
    /\ UNCHANGED <<value_str, ExtractOthers>>

\* The extractor is run on its own numeric output.
Reapply ==
    /\ epc = "done"
    /\ calls = 1
    /\ ret.k = "return"
    /\ IsNumber(ret.v)
    /\ IsFinite(ret.v) => PlainRepr(ret.v)
    /\ value_str' = ret.v
    /\ epc' = "call"
    /\ UNCHANGED <<ret, calls, ExtractOthers>>

NextExtract == Extract \/ Reapply

SpecExtract == InitExtract /\ [][NextExtract]_vars


(***************************************************************************)
(* Claims about extract_numeric_value, checked under SpecExtract.           *)
(***************************************************************************)
Called == epc = "done"

StrArg == value_str.t = "str"

\* A <= B for two finite floats.
FloatLeq(a, b) == a.n * b.d <= b.n * a.d

\* s is "A-B" with the hyphen at index i and A, B non-negative decimal numerals.
RangeAt(s, i) ==
    /\ s[i] = "-"
    /\ IsDecimal(Slice(s, 1, i - 1))
    /\ IsDecimal(Slice(s, i + 1, Len(s)))

RangeLow(s, i) == DecimalValue(Slice(s, 1, i - 1))
RangeHigh(s, i) == DecimalValue(Slice(s, i + 1, Len(s)))

\* C1: for every string "A-B" with A, B non-negative decimal numerals and
\* A <= B, extract_numeric_value returns exactly (A+B)/2.
C1_RangeMean ==
    (Called /\ StrArg) =>
        \A i \in 1..Len(value_str.s) :
            (RangeAt(value_str.s, i)
                /\ FloatLeq(RangeLow(value_str.s, i), RangeHigh(value_str.s, i)))
            => ret = Return(PyFloat(
                     RangeLow(value_str.s, i).n * RangeHigh(value_str.s, i).d
                       + RangeHigh(value_str.s, i).n * RangeLow(value_str.s, i).d,
                     2 * RangeLow(value_str.s, i).d * RangeHigh(value_str.s, i).d))

\* C1 witness: "18.5-19.6" has been extracted as 19.05.
C1_Witness ==
    /\ Called
    /\ value_str = PyStr(<<"1", "8", ".", "5", "-", "1", "9", ".", "6">>)
    /\ ret = Return(PyFloat(1905, 100))

\* s is a valid two-part range: rule 2 returns for it.
ValidRange(s) ==
    /\ HasChar(s, "-")
    /\ Head(s) /= "-"
    /\ Len(Split(s, "-")) = 2
    /\ ParseFloat(Split(s, "-")[1]).ok
    /\ ParseFloat(Split(s, "-")[2]).ok

\* The separator the list rules split s on: ";" when present, else ",".
ListSep(s) == IF HasChar(s, ";") THEN ";" ELSE ","

SameNumber(a, b) == NumEq(a, b) \/ (a.t = "nan" /\ b.t = "nan")

\* C3: idempotence: for every number n the extractor can return, including
\* zero and negative values, extract_numeric_value(n) returns n unchanged.
C3_Idempotent ==
    (Called /\ calls = 2) => (ret.k = "return" /\ SameNumber(ret.v, value_str))

\* C4: the result is always a finite number, the original input unchanged or
\* the empty value; the empty value only for an empty or absent input, and a
\* non-finite number (infinity, not-a-number) never.
C4_FiniteOriginalOrEmpty ==
    Called =>
        /\ ret.k = "return"
        /\ \/ ret.v.t = "float"
           \/ ret.v = value_str
           \/ ret.v = EmptyString
        /\ ret.v = EmptyString => value_str \in {EmptyString, PyNone}
        /\ ret.v.t \notin {"nan", "inf"}

HasDigit(s) == \E i \in 1..Len(s) : s[i] \in Digits

\* C5: extract_numeric_value never raises: every failed conversion falls
\* through to the next rule, and when no rule applies (no number in the
\* string, not a range, no direct conversion) the original string is returned.
C5_NeverRaises ==
    Called =>
        /\ ret.k = "return"
        /\ (StrArg /\ value_str.s /= <<>> /\ ~HasDigit(value_str.s)
              /\ ~ParseFloat(value_str.s).ok /\ ~ValidRange(value_str.s))
           => ret.v = value_str

\* C5 witness: "a-1": the range conversion of "a" failed, was absorbed, and the
\* first-number rule returned -1.
C5_Witness ==
    /\ Called
    /\ value_str = PyStr(<<"a", "-", "1">>)
    /\ ret = Return(PyFloat(-1, 1))


\* s has a hyphen that does not lead it, and is not a valid two-part range:
\* it has more than two hyphen-separated parts or an end that is no number.
MalformedRange(s) ==
    /\ HasChar(s, "-")
    /\ Head(s) /= "-"
    /\ \/ Len(Split(s, "-")) /= 2
       \/ ~ParseFloat(Strip(Split(s, "-")[1])).ok
       \/ ~ParseFloat(Strip(Split(s, "-")[2])).ok

\* What the rules after the range rule give for s.
LaterRules(s) ==
    FirstOutcome(<<ListRule(s, ";"), ListRule(s, ","), FirstNumberRule(s),
                   DirectRule(s)>>)

\* C21: the rules apply in the order range, semicolon list, comma list, first
\* number: a string with both ";" and "," is split on ";" only; a valid
\* two-part range gives the mean of its ends and is never treated as a list;
\* a malformed range falls through to the later rules, so that with a digit
\* in it the result is a number and not the original string.
C21_RulePrecedence ==
    (Called /\ StrArg) =>
        LET s == value_str.s
            semicolon == NumericValues(Split(s, ";"))
        IN /\ (HasChar(s, ";") /\ HasChar(s, ",") /\ semicolon /= <<>>
                 /\ ~ValidRange(s))
               => ret = Return(FloatDiv(Sum(semicolon), Len(semicolon)))
           /\ ValidRange(s)
               => /\ ret = Return(FloatDiv(
                               FloatAdd(ParseFloat(Strip(Split(s, "-")[1])).v,
                                        ParseFloat(Strip(Split(s, "-")[2])).v), 2))
                  /\ ~HasChar(s, ";") /\ ~HasChar(s, ",")
           /\ MalformedRange(s)
               => /\ ret = LaterRules(s)
                  /\ HasDigit(s) => (ret.k = "return" /\ IsNumber(ret.v))

\* C21 witness: "1;2,3" has been split on ";" into "1" and "2,3": 1.5.
C21_Witness ==
    /\ Called
    /\ value_str = PyStr(<<"1", ";", "2", ",", "3">>)
    /\ ret = Return(PyFloat(3, 2))


(***************************************************************************)
(* classify_alloy (src/extract_alloy_data.py, lines 78-130).                *)
(***************************************************************************)
\* any(keyword in s for keyword in keywords)
AnyIn(s, keywords) == \E i \in 1..Len(keywords) : Contains(s, keywords[i])

TinKeywords == <<
    <<"s", "n">>, <<"t", "i", "n">>, <<"p", "b">>, <<"l", "e", "a", "d">> >>
SteelMaterialKeywords ==
    <<
      <<"s", "t", "e", "e", "l">>, <<"i", "r", "o", "n">>,
      <<"f", "e", "-">>,
      <<"m", "i", "l", "d", " ", "s", "t", "e", "e", "l">>,
      <<"c", "a", "r", "b", "o", "n", " ", "s", "t", "e", "e", "l">>,
      <<"s", "t", "a", "i", "n", "l", "e", "s", "s">> >>
SteelCompositionKeywords == <<
    <<"f", "e">>, <<"i", "r", "o", "n">>, <<"s", "t", "e", "e", "l">> >>
TitaniumMaterialKeywords == <<
    <<"t", "i", "-">>, <<"t", "i", "t", "a", "n", "i", "u", "m">> >>
AluminumMaterialKeywords == <<
    <<"a", "l">>, <<"a", "l", "u", "m", "i", "n", "u", "m">>,
    <<"a", "l", "u", "m", "i", "n", "i", "u", "m">> >>
NickelMaterialKeywords == <<
    <<"n", "i", "-">>, <<"n", "i", "c", "k", "e", "l">>,
    <<"i", "n", "c", "o", "n", "e", "l">> >>
CopperMaterialKeywords == <<
    <<"c", "u", "-">>, <<"c", "o", "p", "p", "e", "r">>,
    <<"b", "r", "a", "s", "s">>, <<"b", "r", "o", "n", "z", "e">> >>
MagnesiumMaterialKeywords == <<
    <<"m", "g", "-">>, <<"m", "a", "g", "n", "e", "s", "i", "u", "m">> >>
IntermetallicKeywords ==
    <<
      <<"i", "n", "t", "e", "r", "m", "e", "t", "a", "l", "l", "i", "c">>,
      <<"f", "e", "-", "a", "l">>, <<"t", "i", "-", "a", "l">> >>

Labels ==
    { "Titanium Alloys", "Steel Alloys", "Aluminum Alloys", "Tin Alloys",
      "Nickel Alloys", "Copper Alloys", "Magnesium Alloys",
      "Intermetallic Alloys", "Other Alloys" }

\* The rules of lines 84-127 on the case-folded arguments, in source order;
\* "" when none returns.
KeywordRules(m, c) ==
    IF AnyIn(m, TinKeywords) THEN "Tin Alloys"
    ELSE IF AnyIn(c, TinKeywords) THEN "Tin Alloys"
    ELSE IF AnyIn(m, SteelMaterialKeywords) THEN "Steel Alloys"
    ELSE IF AnyIn(c, SteelCompositionKeywords) THEN "Steel Alloys"
    ELSE IF AnyIn(m, TitaniumMaterialKeywords) THEN "Titanium Alloys"
    ELSE IF Contains(c, <<"t", "i">>) /\ (Contains(c, <<"a", "l">>) \/ Contains(c, <<"v">>))
        THEN "Titanium Alloys"
    ELSE IF AnyIn(m, AluminumMaterialKeywords) THEN "Aluminum Alloys"
    ELSE IF Contains(c, <<"a", "l">>) /\ ~Contains(c, <<"t", "i">>) THEN "Aluminum Alloys"
    ELSE IF AnyIn(m, NickelMaterialKeywords) THEN "Nickel Alloys"
    ELSE IF Contains(c, <<"n", "i">>) /\ ~Contains(<<"t", "i", "t", "a", "n", "i", "u", "m">>, <<"n", "i">>)
        THEN "Nickel Alloys"
    ELSE IF AnyIn(m, CopperMaterialKeywords) THEN "Copper Alloys"
    ELSE IF Contains(c, <<"c", "u">>) /\ ~Contains(<<"t", "i", "t", "a", "n", "i", "u", "m">>, <<"c", "u">>)
        THEN "Copper Alloys"
    ELSE IF AnyIn(m, MagnesiumMaterialKeywords) THEN "Magnesium Alloys"
    ELSE IF Contains(c, <<"m", "g">>) THEN "Magnesium Alloys"
    ELSE IF AnyIn(m, IntermetallicKeywords) THEN "Intermetallic Alloys"
    ELSE ""

\* classify_alloy with the steel rules tried before the tin rules.
classify_alloy_steel_first(mat, comp) ==
    LET m == Lower(ToStr(mat))
        c == Lower(ToStr(comp))
    IN IF AnyIn(m, SteelMaterialKeywords) \/ AnyIn(c, SteelCompositionKeywords)
       THEN "Steel Alloys"
       ELSE IF KeywordRules(m, c) /= "" THEN KeywordRules(m, c) ELSE "Other Alloys"

\* classify_alloy without the default of line 130.
classify_alloy_no_default(mat, comp) ==
    KeywordRules(Lower(ToStr(mat)), Lower(ToStr(comp)))

\* Lines 80-81 (str(), lower()), the rules, and the default of line 130.
classify_alloy(mat, comp) ==
    LET m == Lower(ToStr(mat))
        c == Lower(ToStr(comp))
    IN IF KeywordRules(m, c) /= "" THEN KeywordRules(m, c) ELSE "Other Alloys"

(***************************************************************************)
(* The classifier's arguments: material names of at most MaxWords words     *)
(* joined by spaces, a fixed set of composition strings, and null.          *)
(***************************************************************************)
MaterialWords ==
    {
      <<"S", "n", "-", "P", "b">>, <<"s", "o", "l", "d", "e", "r">>,
      <<"S", "t", "e", "e", "l">>,
      <<"T", "i", "-", "6", "A", "l", "-", "4", "V">>, <<"A", "l">>,
      <<"I", "n", "c", "o", "n", "e", "l">>, <<"N", "i", "-">>,
      <<"C", "o", "p", "p", "e", "r">>, <<"M", "g", "-">>,
      <<"i", "n", "t", "e", "r", "m", "e", "t", "a", "l", "l", "i", "c">>,
      <<"F", "e", "-", "A", "l">>, <<"T", "i", "-", "A", "l">>,
      <<"Z", "r">>, <<"C", "o">> }

RECURSIVE Join(_)
Join(ws) ==
    IF ws = <<>> THEN <<>>
    ELSE IF Len(ws) = 1 THEN ws[1]
    ELSE ws[1] \o <<" ">> \o Join(Tail(ws))

Materials ==
    {PyStr(Join(ws)) : ws \in UNION {[1..k -> MaterialWords] : k \in 0..MaxWords}}
        \cup {PyNone}

Compositions ==
    {PyStr(s) : s \in
        {<<>>, <<"S", "n">>, <<"P", "b", "-", "S", "n">>, <<"F", "e">>,
          <<"F", "e", "-", "C", "r", "-", "N", "i">>,
          <<"T", "i", "-", "6", "A", "l", "-", "4", "V">>, <<"T", "i">>,
          <<"T", "i", "-", "V">>, <<"A", "l">>,
          <<"A", "l", "-", "S", "i">>, <<"N", "i">>,
          <<"N", "i", "-", "C", "r">>, <<"T", "i", "-", "N", "i">>,
          <<"C", "u">>, <<"C", "u", "-", "Z", "n">>,
          <<"C", "u", "-", "N", "i">>, <<"M", "g">>, <<"Z", "r">>,
          <<"C", "r", "-", "C", "o">> }}
        \cup {PyNone}

InitClassify ==
    /\ material \in Materials
    /\ composition \in Compositions
    /\ label = ""
    /\ cpc = "call"
    /\ ClassifyOthersIdle

\* One call of classify_alloy on (material, composition).
Classify ==
    /\ cpc = "call"
    /\ label' = classify_alloy(material, composition)
    /\ cpc' = "done"
    /\ UNCHANGED <<material, composition, ClassifyOthers>>

NextClassify == Classify

SpecClassify == InitClassify /\ [][NextClassify]_vars


(***************************************************************************)
(* Claims about classify_alloy, checked under SpecClassify.                 *)
(***************************************************************************)
Classified == cpc = "done"

\* The case-folded arguments, as the rules see them.
FoldedMaterial == Lower(ToStr(material))
FoldedComposition == Lower(ToStr(composition))

\* The composition rules of the classifier as the specification states them.
TinComposition(c) == AnyIn(c, TinKeywords)
IronComposition(c) == AnyIn(c, SteelCompositionKeywords)
TitaniumComposition(c) ==
    Contains(c, <<"t", "i">>) /\ (Contains(c, <<"a", "l">>) \/ Contains(c, <<"v">>))
AluminumComposition(c) == Contains(c, <<"a", "l">>) /\ ~Contains(c, <<"t", "i">>)

\* No keyword rule of the classifier matches the pair (m, c).
NoKeywordMatches(m, c) ==
    /\ ~AnyIn(m, TinKeywords \o SteelMaterialKeywords \o TitaniumMaterialKeywords
                   \o AluminumMaterialKeywords \o NickelMaterialKeywords
                   \o CopperMaterialKeywords \o MagnesiumMaterialKeywords
                   \o IntermetallicKeywords)
    /\ ~TinComposition(c) /\ ~IronComposition(c)
    /\ ~TitaniumComposition(c) /\ ~AluminumComposition(c)
    /\ ~Contains(c, <<"n", "i">>) /\ ~Contains(c, <<"c", "u">>) /\ ~Contains(c, <<"m", "g">>)

\* C6: for every (material, composition) pair, also empty or non-string, the
\* classifier returns exactly one label of the fixed set, and Other Alloys
\* when no keyword rule matches.
C6_OneLabel ==
    Classified =>
        /\ label \in Labels
        /\ NoKeywordMatches(FoldedMaterial, FoldedComposition)
              => label = "Other Alloys"

\* C6 witness: material "Zr" with composition "Cr-Co" matched no rule and
\* was classified as Other Alloys.
C6_Witness ==
    /\ Classified
    /\ material = PyStr(<<"Z", "r">>)
    /\ composition = PyStr(<<"C", "r", "-", "C", "o">>)
    /\ label = "Other Alloys"

\* C7: tin first: whenever the case-folded material or composition contains
\* a tin/lead keyword the label is Tin Alloys, whatever else is present.
C7_TinFirst ==
    (Classified /\ (AnyIn(FoldedMaterial, TinKeywords)
                      \/ AnyIn(FoldedComposition, TinKeywords)))
    => label = "Tin Alloys"

\* C7 witness: material "Sn-Pb Steel" with composition "Ti-6Al-4V" (steel and
\* titanium keywords present) was classified as Tin Alloys.
C7_Witness ==
    /\ Classified
    /\ material = PyStr(<<"S", "n", "-", "P", "b", " ", "S", "t", "e", "e", "l">>)
    /\ composition = PyStr(<<"T", "i", "-", "6", "A", "l", "-", "4", "V">>)
    /\ label = "Tin Alloys"

\* C8: a material name containing an explicit intermetallic keyword
\* ('intermetallic', 'fe-al', 'ti-al') with an empty composition is
\* classified as Intermetallic Alloys (so every label is reachable).
C8_IntermetallicReachable ==
    (Classified /\ AnyIn(FoldedMaterial, IntermetallicKeywords)
        /\ composition = EmptyString)
    => label = "Intermetallic Alloys"

\* The material matches no material keyword of rules 1-5 (tin, steel,
\* titanium, aluminium, nickel).
NoMaterialKeyword1to5(m) ==
    ~AnyIn(m, TinKeywords \o SteelMaterialKeywords \o TitaniumMaterialKeywords
                \o AluminumMaterialKeywords \o NickelMaterialKeywords)

\* C9: nickel composition rule: when the material matches no keyword of rules
\* 1-5 and the composition contains "ni" but matches none of the tin/lead,
\* iron-family, titanium or aluminium composition rules, the label is Nickel
\* Alloys.
C9_NickelComposition ==
    (Classified /\ NoMaterialKeyword1to5(FoldedMaterial)
        /\ Contains(FoldedComposition, <<"n", "i">>)
        /\ ~TinComposition(FoldedComposition)
        /\ ~IronComposition(FoldedComposition)
        /\ ~TitaniumComposition(FoldedComposition)
        /\ ~AluminumComposition(FoldedComposition))
    => label = "Nickel Alloys"


(***************************************************************************)
(* JSON containers.  A dict is [t |-> "dict", f |-> key :> value @@ ...],   *)
(* a list is [t |-> "list", f |-> <<...>>]; any other value is a Python     *)
(* value as above.                                                          *)
(***************************************************************************)
Dict(f) == [t |-> "dict", f |-> f]
List(f) == [t |-> "list", f |-> f]
EmptyDict == Dict(<<>>)
IsDict(x) == x.t = "dict"

\* d.get(key, default) on a dict d.
Get(d, key, default) == IF key \in DOMAIN d.f THEN d.f[key] ELSE default

(***************************************************************************)
(* extract_strength_data (src/extract_alloy_data.py, lines 132-171).        *)
(***************************************************************************)
NumberChars == Digits \cup {".", "-"}

\* The first index at or after a whose character is not in chars
\* (Len(s) + 1 when there is none).
RECURSIVE SkipWhile(_, _, _)
SkipWhile(s, a, chars) ==
    IF a <= Len(s) /\ s[a] \in chars THEN SkipWhile(s, a + 1, chars) ELSE a

\* The indices where  marker[:\s]*([0-9.-]+)  matches s, ignoring case.
MarkerStarts(s, marker) ==
    {i \in 1..Len(s) :
        /\ i + Len(marker) - 1 <= Len(s)
        /\ Lower(Slice(s, i, i + Len(marker) - 1)) = marker
        /\ LET p == SkipWhile(s, i + Len(marker), {":", " "})
           IN p <= Len(s) /\ s[p] \in NumberChars}

\* re.search(marker + r'[:\s]*([0-9.-]+)', s, re.IGNORECASE): group(1) of the
\* leftmost match, or <<>> when there is no match (a match's group is never
\* empty).
MarkerGroup(s, marker) ==
    IF MarkerStarts(s, marker) = {} THEN <<>>
    ELSE LET i == CHOOSE k \in MarkerStarts(s, marker) :
                      \A m \in MarkerStarts(s, marker) : k <= m
             p == SkipWhile(s, i + Len(marker), {":", " "})
         IN Slice(s, p, SkipWhile(s, p, NumberChars) - 1)

\* Lines 148-151 (and 154-169): the extractor's result on the token after the
\* marker, or "" when the block is empty or the marker does not match.
MarkerValue(block, marker) ==
    IF block /= <<>> /\ MarkerGroup(block, marker) /= <<>>
    THEN extract_numeric_value(PyStr(MarkerGroup(block, marker))).v
    ELSE EmptyString

\* Lines 144-145:  str(x) if x else "".
BlockText(x) == IF Truthy(x) THEN ToStr(x) ELSE <<>>

UTS == <<"u", "t", "s">>
ELONGATION == <<"e", "l", "o", "n", "g", "a", "t", "i", "o", "n">>

\* Line 171 with the base-material UTS read from the WAAM block.
StrengthFieldsCrossed ==
    << [block |-> "At WAAM Deposition", marker |-> UTS],
       [block |-> "At WAAM Deposition", marker |-> UTS],
       [block |-> "At WAAM Deposition", marker |-> ELONGATION],
       [block |-> "At Base Material", marker |-> ELONGATION] >>

\* The four results in the order of line 171, each named by the block it is
\* read from and the marker it follows.
StrengthFields ==
    << [block |-> "At WAAM Deposition", marker |-> UTS],
       [block |-> "At Base Material", marker |-> UTS],
       [block |-> "At WAAM Deposition", marker |-> ELONGATION],
       [block |-> "At Base Material", marker |-> ELONGATION] >>

\* extract_strength_data with its four results initialised to None.
extract_strength_data_none(strength_data) ==
    IF IsDict(strength_data)
    THEN [i \in 1..4 |->
            MarkerValue(BlockText(Get(strength_data, StrengthFields[i].block,
                                      EmptyString)),
                        StrengthFields[i].marker)]
    ELSE <<PyNone, PyNone, PyNone, PyNone>>

\* The result <<uts_waam, uts_bm, elong_waam, elong_bm>>.
extract_strength_data(strength_data) ==
    IF IsDict(strength_data)
    THEN [i \in 1..4 |->
            MarkerValue(BlockText(Get(strength_data, StrengthFields[i].block,
                                      EmptyString)),
                        StrengthFields[i].marker)]
    ELSE <<EmptyString, EmptyString, EmptyString, EmptyString>>

(***************************************************************************)
(* main (src/extract_alloy_data.py, lines 173-273): the flattening loop.    *)
(***************************************************************************)
\* Lines 197-199, 205 and 212: the sub-objects main calls .get on.  A value
\* that is not a dict has no .get: AttributeError, which main does not catch.
material_info(data_item) == Get(data_item, "WAAM wise Material", EmptyDict)
welding_params(data_item) == Get(data_item, "Welding Parameters", EmptyDict)

ItemRaises(data_item) ==
    \/ ~IsDict(data_item)
    \/ ~IsDict(material_info(data_item))
    \/ ~IsDict(welding_params(data_item))

\* Line 202: the category of a Data Item.
alloy_type(data_item) ==
    classify_alloy(Get(material_info(data_item), "Material", EmptyString),
                   Get(material_info(data_item), "Composition", EmptyString))

\* extract_numeric_value's return value (the function never raises).
Extracted(v) == extract_numeric_value(v).v

\* Lines 206-209: the Flat Record fields read from the welding parameters,
\* each with the key it is read from.
WeldingFields ==
       ("Heat Input (kJ/mm)" :> "Heat Input (kJ/mm)")
    @@ ("Power(kW)" :> "Power(kW)")
    @@ ("Travel Speed (mm/s)" :> "Travel Speed (mm/s)")
    @@ ("Wire Diameter (mm)" :> "Wire Diameter (mm)")

\* Lines 216-218: the Flat Record fields read from the Data Item itself.
BeadFields ==
       ("Bead Width(mm)" :> "Bead Width")
    @@ ("Bead Height(mm)" :> "Bead Height")
    @@ ("Overlap(%)" :> "Overlap (%)")

\* Lines 227-230: the Flat Record fields taken from extract_strength_data.
StrengthIndex ==
       ("UTS(WAAM)(MPa)" :> 1)
    @@ ("UTS(BM)(MPa)" :> 2)
    @@ ("Elong(WAAM)(%)" :> 3)
    @@ ("Elong(BM)(%)" :> 4)

FlatKeys ==
    {"Serial No."} \cup DOMAIN WeldingFields \cup DOMAIN StrengthIndex
        \cup DOMAIN BeadFields

\* Lines 206-209 and 216-218: the raw value of an extracted field.
RawField(data_item, key) ==
    IF key \in DOMAIN WeldingFields
    THEN Get(welding_params(data_item), WeldingFields[key], EmptyString)
    ELSE Get(data_item, BeadFields[key], EmptyString)

\* Lines 221-234 with the raw field values stored as they are.
alloy_entry_unextracted(serial, data_item) ==
    LET strength == extract_strength_data(Get(data_item, "Strength", EmptyDict))
    IN [key \in FlatKeys |->
           IF key = "Serial No." THEN serial
           ELSE IF key \in DOMAIN StrengthIndex THEN strength[StrengthIndex[key]]
           ELSE RawField(data_item, key)]

\* Lines 212-234: the Flat Record of a Data Item.
alloy_entry(serial, data_item) ==
    LET strength == extract_strength_data(Get(data_item, "Strength", EmptyDict))
    IN [key \in FlatKeys |->
           IF key = "Serial No." THEN serial
           ELSE IF key \in DOMAIN StrengthIndex THEN strength[StrengthIndex[key]]
           ELSE Extracted(RawField(data_item, key))]

\* Line 236 with the record put at the front of the list.
AppendEntryFront(ad, type, entry) == [ad EXCEPT ![type] = <<entry>> \o @]

\* Line 236 with the list replaced instead of extended.
AppendEntryOverwrite(ad, type, entry) == [ad EXCEPT ![type] = <<entry>>]

\* Line 236: alloy_data[alloy_type].append(alloy_entry) on the defaultdict.
AppendEntry(ad, type, entry) == [ad EXCEPT ![type] = Append(@, entry)]

\* Lines 192-193 of the outer loop.
serial_no(entry) == Get(entry, "Serial No.", EmptyString)
data_list(entry) == Get(entry, "Data", List(<<>>)).f

(***************************************************************************)
(* Input stores: at most MaxEntries Raw Records holding at most MaxItems    *)
(* Data Items in all; the Raw Record at position i has serial number i.     *)
(***************************************************************************)
TitaniumItem ==
    Dict(   ("WAAM wise Material" :> Dict("Material" :> PyStr(<<"T", "i", "-", "6", "A", "l", "-", "4", "V">>)))
         @@ ("Welding Parameters" :>
                Dict(   ("Heat Input (kJ/mm)" :> PyStr(<<"1", "0", "-", "1", "2">>))
                     @@ ("Power(kW)" :> PyStr(<<"5">>))))
         @@ ("Strength" :>
                Dict("At WAAM Deposition" :> PyStr(
                    <<"U", "T", "S", ":", " ", "4", "5", "0", ",", " ", "E",
                    "l", "o", "n", "g", "a", "t", "i", "o", "n", ":", " ",
                    "1", "2">>)))
         @@ ("Bead Height" :> PyFloat(5, 2)))

SteelItem ==
    Dict(   ("WAAM wise Material" :>
                Dict(("Material" :> PyStr(<<"S", "t", "e", "e", "l">>)) @@ ("Composition" :> PyStr(<<"F", "e">>))))
         @@ ("Strength" :> PyStr(<<"n", "/", "a">>))
         @@ ("Overlap (%)" :> PyStr(<<"3", "0", ";", "4", "0">>)))

\* A second titanium item: the same material and welding parameters as
\* TitaniumItem with one more parameter and only a base-material block.
TitaniumBaseItem ==
    Dict(   ("WAAM wise Material" :> Dict("Material" :> PyStr(<<"T", "i", "-", "6", "A", "l", "-", "4", "V">>)))
         @@ ("Welding Parameters" :>
                Dict(   ("Heat Input (kJ/mm)" :> PyStr(<<"1", "0", "-", "1", "2">>))
                     @@ ("Power(kW)" :> PyStr(<<"5">>))
                     @@ ("Travel Speed (mm/s)" :> PyInt(8))))
         @@ ("Strength" :>
                Dict("At Base Material" :> PyStr(
                    <<"u", "t", "s", " ", "9", "0", "0", " ", "E",
                    "L", "O", "N", "G", "A", "T", "I", "O", "N", ":", "1", "0">>))))

\* "WAAM wise Material": null
NullMaterialItem ==
    Dict(   ("WAAM wise Material" :> PyNone)
         @@ ("Bead Width" :> PyInt(5)))

DataItems == {TitaniumItem, TitaniumBaseItem, SteelItem, NullMaterialItem}

RECURSIVE SumTo(_, _)
SumTo(lens, i) == IF i = 0 THEN 0 ELSE lens[i] + SumTo(lens, i - 1)

\* The store whose Raw Record i holds the next lens[i] Data Items of flat.
Store(lens, flat) ==
    [i \in 1..Len(lens) |->
        Dict(   ("Serial No." :> PyInt(i))
             @@ ("Data" :> List(Slice(flat, SumTo(lens, i - 1) + 1, SumTo(lens, i)))))]

\* A character json.dump cannot encode as UTF-8 with ensure_ascii=False: a
\* lone surrogate, which json.load accepts in the input ("\ud800").
Surrogate == "U+D800"

\* File contents: a missing file, a file of zero bytes, the beginning of a
\* JSON document, or a complete JSON mapping from category to list, in key
\* order.
NoEntries == [l \in Labels |-> <<>>]
AbsentFile == [state |-> "absent", order |-> <<>>, entries |-> NoEntries]
EmptyFile == [state |-> "empty", order |-> <<>>, entries |-> NoEntries]
PartialFile == [state |-> "partial", order |-> <<>>, entries |-> NoEntries]
JsonFile(order, entries) ==
    [state |-> "complete", order |-> order, entries |-> entries]

\* A derived store left by an earlier run over another input.
OldOutput ==
    JsonFile(<<"Other Alloys">>,
             [NoEntries EXCEPT !["Other Alloys"] = <<alloy_entry(PyInt(7), EmptyDict)>>])

\* Line 247: whether json.dump can write the mapping: every string in it
\* must be encodable.
Encodable(order, entries) ==
    \A i \in 1..Len(order) : \A k \in 1..Len(entries[order[i]]) :
        \A key \in FlatKeys :
            entries[order[i]][k][key].t = "str"
                => ~HasChar(entries[order[i]][k][key].s, Surrogate)

\* Line 189 keeping the mapping of the run before.
defaultdict_kept(previous) == previous

\* Line 189: alloy_data = defaultdict(list).
defaultdict_list(previous) == NoEntries

\* The number of runs of the script over the same input.
Runs == 2

\* The input file: missing, not JSON, or a store; in a store of one Raw
\* Record the serial number may be a string with a lone surrogate.
InputFiles(k, lens, flat) ==
    {[state |-> "ok", content |-> Store(lens, flat)]}
    \cup (IF k = 0
          THEN {[state |-> "missing", content |-> <<>>],
                [state |-> "malformed", content |-> <<>>]}
          ELSE {})
    \cup (IF k = 1
          THEN {[state |-> "ok",
                 content |-> <<Dict(   ("Serial No." :> PyStr(<<Surrogate>>))
                                    @@ ("Data" :> List(flat)))>>]}
          ELSE {})

InitMain ==
    /\ \E k \in 0..MaxEntries :
         \E lens \in [1..k -> 0..MaxItems] :
           /\ SumTo(lens, k) <= MaxItems
           /\ \E flat \in [1..SumTo(lens, k) -> DataItems] :
                input_file \in InputFiles(k, lens, flat)
    /\ output_file \in {AbsentFile, OldOutput}
    /\ output_before = output_file
    /\ exit_code = -1
    /\ runs = 1
    /\ data = <<>>
    /\ entry_i = 1
    /\ item_j = 1
    /\ alloy_data = NoEntries
    /\ key_order = <<>>
    /\ mpc = "start"
    /\ MainOthersIdle

\* Lines 175-189: the input is loaded; a missing file or malformed JSON
\* prints the error and exits with status 1.
LoadInput ==
    /\ mpc = "start"
    /\ IF input_file.state = "ok"
       THEN /\ data' = input_file.content
            /\ entry_i' = 1
            /\ item_j' = 1
            /\ alloy_data' = defaultdict_list(alloy_data)
            /\ key_order' = <<>>
            /\ mpc' = "loop"
            /\ UNCHANGED exit_code
       ELSE /\ mpc' = "exited"
            /\ exit_code' = 1
            /\ UNCHANGED <<data, entry_i, item_j, alloy_data, key_order>>
    /\ UNCHANGED <<input_file, output_file, output_before, runs, MainOthers>>

\* Lines 195-236 for one Data Item: flatten it and append the Flat Record to
\* its category; an AttributeError is not caught and ends the run with a
\* traceback and status 1.
ProcessItem ==
    /\ mpc = "loop"
    /\ entry_i <= Len(data)
    /\ item_j <= Len(data_list(data[entry_i]))
    /\ LET data_item == data_list(data[entry_i])[item_j]
       IN IF ItemRaises(data_item)
          THEN /\ mpc' = "crashed"
               /\ exit_code' = 1
               /\ UNCHANGED <<data, entry_i, item_j, alloy_data, key_order>>
          ELSE \E type \in {alloy_type(data_item)} :
               /\ alloy_data' =
                      AppendEntry(alloy_data, type,
                                  alloy_entry(serial_no(data[entry_i]), data_item))
               /\ key_order' =
                      IF \E k \in 1..Len(key_order) : key_order[k] = type
                      THEN key_order
                      ELSE Append(key_order, type)
               /\ item_j' = item_j + 1
               /\ UNCHANGED <<data, entry_i, mpc, exit_code>>
    /\ UNCHANGED <<input_file, output_file, output_before, runs, MainOthers>>

\* Line 191: the inner loop is exhausted, the outer loop takes the next entry.
NextEntry ==
    /\ mpc = "loop"
    /\ entry_i <= Len(data)
    /\ item_j > Len(data_list(data[entry_i]))
    /\ entry_i' = entry_i + 1
    /\ item_j' = 1
    /\ UNCHANGED <<data, alloy_data, key_order, mpc, input_file, output_file,
                   output_before, exit_code, runs, MainOthers>>

\* Lines 238-246: both loops are done and the output file is opened for
\* writing, which empties it; when it cannot be opened the error is printed
\* and the run exits with status 1.
OpenOutput ==
    /\ mpc = "loop"
    /\ entry_i > Len(data)
    /\ \/ /\ output_file' = EmptyFile
          /\ mpc' = "write"
          /\ UNCHANGED exit_code
       \/ /\ mpc' = "exited"
          /\ exit_code' = 1
          /\ UNCHANGED output_file
    /\ UNCHANGED <<data, entry_i, item_j, alloy_data, key_order, input_file,
                   output_before, runs, MainOthers>>

\* Lines 247-273: json.dump writes the mapping piece by piece and the file is
\* closed; an error (a string that cannot be encoded) leaves what was
\* written so far, prints the error and exits with status 1.
WriteOutput ==
    /\ mpc = "write"
    /\ IF Encodable(key_order, alloy_data)
       THEN /\ output_file' = JsonFile(key_order, alloy_data)
            /\ mpc' = "done"
            /\ exit_code' = 0
       ELSE /\ output_file' = PartialFile
            /\ mpc' = "exited"
            /\ exit_code' = 1
    /\ UNCHANGED <<data, entry_i, item_j, alloy_data, key_order, input_file,
                   output_before, runs, MainOthers>>

\* The script is run again over the same input.
StartRun ==
    /\ mpc = "done"
    /\ runs < Runs
    /\ runs' = runs + 1
    /\ output_before' = output_file
    /\ exit_code' = -1
    /\ mpc' = "start"
    /\ UNCHANGED <<data, entry_i, item_j, alloy_data, key_order, input_file,
                   output_file, MainOthers>>

NextMain ==
    \/ LoadInput
    \/ ProcessItem
    \/ NextEntry
    \/ OpenOutput
    \/ WriteOutput
    \/ StartRun

SpecMain == InitMain /\ [][NextMain]_vars

(***************************************************************************)
(* Claims about the Flattener, checked under SpecMain.                      *)
(***************************************************************************)
RECURSIVE SumLens(_)
SumLens(seqs) == IF seqs = <<>> THEN 0 ELSE Len(Head(seqs)) + SumLens(Tail(seqs))

\* The number of Data Items of the Raw Record at position i that the loop has
\* gone through.
ItemsDone(i) ==
    IF i < entry_i THEN Len(data_list(data[i]))
    ELSE IF i = entry_i THEN item_j - 1
    ELSE 0

\* The Flat Records over all categories that carry serial number s.
FlatWithSerial(s) ==
    {<<l, k>> \in Labels \X (1..MaxItems) :
        k <= Len(alloy_data[l]) /\ alloy_data[l][k]["Serial No."] = s}

TotalFlat == Cardinality({<<l, k>> \in Labels \X (1..MaxItems) :
                              k <= Len(alloy_data[l])})

TotalItems == SumLens([i \in 1..Len(data) |-> data_list(data[i])])

RECURSIVE ProcessedUpTo(_)
ProcessedUpTo(i) ==
    IF i = 0 THEN <<>>
    ELSE ProcessedUpTo(i - 1)
         \o [k \in 1..ItemsDone(i) |->
                [serial |-> serial_no(data[i]), item |-> data_list(data[i])[k]]]

Processed == ProcessedUpTo(Len(data))

\* For each Data Item of the input alphabet that main can flatten: the label
\* classify_alloy returns for it and its Flat Record without serial number.
ItemTable ==
    [d \in {x \in DataItems : ~ItemRaises(x)} |->
        [type |-> alloy_type(d), entry |-> alloy_entry(PyNone, d)]]

\* The processed Data Items as main sees them: the item's label and its Flat
\* Record.
Flattened(items) ==
    [k \in 1..Len(items) |->
        [type |-> ItemTable[items[k].item].type,
         entry |-> [ItemTable[items[k].item].entry
                        EXCEPT !["Serial No."] = items[k].serial]]]

\* The Flat Records of flat labelled l, in the order of flat.
RECURSIVE RecordsOf(_, _)
RecordsOf(flat, l) ==
    IF flat = <<>> THEN <<>>
    ELSE IF Head(flat).type = l
         THEN <<Head(flat).entry>> \o RecordsOf(Tail(flat), l)
         ELSE RecordsOf(Tail(flat), l)

\* C11: grouping by category: at every point of the loop each category holds
\* exactly the Flat Records of the processed Data Items that classify_alloy
\* gave that category's label, in input order (Raw Record order, then Data
\* Item order); so each Flat Record is under one key, its item's label.
C11_GroupedInOrder ==
    LET flat == Flattened(Processed)
    IN \A l \in Labels : alloy_data[l] = RecordsOf(flat, l)

\* C11 witness: a completed run in which one Raw Record contributed two
\* different Flat Records to Titanium Alloys with a Steel Alloys record
\* between them in the input.
C11_Witness ==
    /\ mpc = "done"
    /\ Len(data) >= 1
    /\ data_list(data[1]) = <<TitaniumItem, SteelItem, TitaniumBaseItem>>
    /\ Len(alloy_data["Titanium Alloys"]) >= 2
    /\ alloy_data["Titanium Alloys"][1] /= alloy_data["Titanium Alloys"][2]
    /\ Len(alloy_data["Steel Alloys"]) >= 1

\* The Data Item the inner loop is at, when there is one.
HasCurrentItem ==
    /\ mpc = "loop"
    /\ entry_i <= Len(data)
    /\ item_j <= Len(data_list(data[entry_i]))

CurrentItem == data_list(data[entry_i])[item_j]

\* A Data Item of the end-to-end scenario: Heat Input "10-12", Power "5",
\* material "Ti-6Al-4V" and no composition.
ScenarioItem(d) ==
    /\ IsDict(d)
    /\ "Welding Parameters" \in DOMAIN d.f
    /\ IsDict(d.f["Welding Parameters"])
    /\ "Heat Input (kJ/mm)" \in DOMAIN d.f["Welding Parameters"].f
    /\ d.f["Welding Parameters"].f["Heat Input (kJ/mm)"]
           = PyStr(<<"1", "0", "-", "1", "2">>)
    /\ "Power(kW)" \in DOMAIN d.f["Welding Parameters"].f
    /\ d.f["Welding Parameters"].f["Power(kW)"] = PyStr(<<"5">>)
    /\ "WAAM wise Material" \in DOMAIN d.f
    /\ IsDict(d.f["WAAM wise Material"])
    /\ DOMAIN d.f["WAAM wise Material"].f = {"Material"}
    /\ d.f["WAAM wise Material"].f["Material"]
           = PyStr(<<"T", "i", "-", "6", "A", "l", "-", "4", "V">>)

\* A Flat Record with Heat Input = 11.0 and Power = 5.0.
ScenarioRecord(rec) ==
    /\ rec["Heat Input (kJ/mm)"] = PyFloat(11, 1)
    /\ rec["Power(kW)"] = PyFloat(5, 1)

\* C12: end-to-end flattening: whenever the loop is at a Data Item with Heat
\* Input "10-12", Power "5", material "Ti-6Al-4V" and no composition, its step
\* appends one Flat Record with Heat Input 11.0 and Power 5.0 to the category
\* Titanium Alloys and to no other category.
C12_EndToEnd ==
    [][(HasCurrentItem /\ ScenarioItem(CurrentItem))
         => /\ Len(alloy_data'["Titanium Alloys"])
                  = Len(alloy_data["Titanium Alloys"]) + 1
            /\ ScenarioRecord(alloy_data'["Titanium Alloys"][
                                  Len(alloy_data'["Titanium Alloys"])])
            /\ \A l \in Labels \ {"Titanium Alloys"} :
                   alloy_data'[l] = alloy_data[l]]_vars

\* C12 witness: a completed run that went through both scenario items of the
\* input alphabet and holds their two Flat Records under Titanium Alloys.
C12_Witness ==
    /\ mpc = "done"
    /\ \E i, k \in 1..Len(Processed) :
           /\ Processed[i].item = TitaniumItem
           /\ Processed[k].item = TitaniumBaseItem
           /\ ScenarioItem(Processed[i].item)
           /\ ScenarioItem(Processed[k].item)
    /\ Len(alloy_data["Titanium Alloys"]) = 2
    /\ \A k \in 1..2 : ScenarioRecord(alloy_data["Titanium Alloys"][k])

\* The twelve fields of a Flat Record.
TwelveFields ==
    {"Serial No.", "Heat Input (kJ/mm)", "Power(kW)", "Travel Speed (mm/s)",
     "Wire Diameter (mm)", "UTS(WAAM)(MPa)", "UTS(BM)(MPa)", "Elong(WAAM)(%)",
     "Elong(BM)(%)", "Bead Width(mm)", "Bead Height(mm)", "Overlap(%)"}

\* Data Item d has no sub-object sub, or sub has no key.
MissingIn(d, sub, key) ==
    \/ sub \notin DOMAIN d.f
    \/ ~IsDict(d.f[sub])
    \/ key \notin DOMAIN d.f[sub].f

\* Every field of rec whose source is missing from Data Item d, or whose
\* strength block is not a mapping, is the empty string.
MissingIsEmpty(d, rec) ==
    /\ \A key \in {"Heat Input (kJ/mm)", "Power(kW)", "Travel Speed (mm/s)",
                   "Wire Diameter (mm)"} :
           MissingIn(d, "Welding Parameters", key) => rec[key] = EmptyString
    /\ MissingIn(d, "Strength", "At WAAM Deposition")
           => /\ rec["UTS(WAAM)(MPa)"] = EmptyString
              /\ rec["Elong(WAAM)(%)"] = EmptyString
    /\ MissingIn(d, "Strength", "At Base Material")
           => /\ rec["UTS(BM)(MPa)"] = EmptyString
              /\ rec["Elong(BM)(%)"] = EmptyString
    /\ "Bead Width" \notin DOMAIN d.f => rec["Bead Width(mm)"] = EmptyString
    /\ "Bead Height" \notin DOMAIN d.f => rec["Bead Height(mm)"] = EmptyString
    /\ "Overlap (%)" \notin DOMAIN d.f => rec["Overlap(%)"] = EmptyString

\* C22: every Flat Record in the mapping and in a written derived store has
\* exactly the twelve fields, and the record appended for a Data Item holds
\* the empty string in every field whose source key or sub-object is missing
\* from the item or whose strength block is not a mapping.
C22_TwelveFields ==
    /\ [](\A l \in Labels :
            /\ \A k \in 1..Len(alloy_data[l]) : DOMAIN alloy_data[l][k] = TwelveFields
            /\ (mpc # "idle" /\ output_file.state = "complete")
                 => \A k \in 1..Len(output_file.entries[l]) :
                        DOMAIN output_file.entries[l][k] = TwelveFields)
    /\ [][(HasCurrentItem /\ alloy_data' # alloy_data)
            => \E l \in Labels :
                 /\ Len(alloy_data'[l]) = Len(alloy_data[l]) + 1
                 /\ MissingIsEmpty(CurrentItem, alloy_data'[l][Len(alloy_data'[l])])]_vars

\* C22 witness: a store was written that holds the record of an item without
\* welding parameters and with a strength block that is a string, and the
\* record of an item with a WAAM block only.
C22_Witness ==
    /\ mpc = "done"
    /\ output_file.state = "complete"
    /\ \E i, k \in 1..Len(Processed) :
           /\ Processed[i].item = SteelItem
           /\ ~IsDict(Processed[i].item.f["Strength"])
           /\ "Welding Parameters" \notin DOMAIN Processed[i].item.f
           /\ Processed[k].item = TitaniumItem
    /\ Len(output_file.entries["Steel Alloys"]) = 1
    /\ output_file.entries["Steel Alloys"][1]["UTS(WAAM)(MPa)"] = EmptyString
    /\ output_file.entries["Steel Alloys"][1]["Power(kW)"] = EmptyString
    /\ output_file.entries["Steel Alloys"][1]["Overlap(%)"] = PyFloat(35, 1)
    /\ Len(output_file.entries["Titanium Alloys"]) = 1
    /\ output_file.entries["Titanium Alloys"][1]["UTS(WAAM)(MPa)"] = PyFloat(450, 1)
    /\ output_file.entries["Titanium Alloys"][1]["UTS(BM)(MPa)"] = EmptyString

\* The run has ended: normally, by sys.exit(1), or by an uncaught exception.
RunEnded == mpc \in {"done", "exited", "crashed"}

\* The complete mapping for the whole input: every Data Item flattened into
\* its category, in input order.
CompleteMapping(file) ==
    /\ file.state = "complete"
    /\ LET flat == Flattened(Processed)
       IN \A l \in Labels : file.entries[l] = RecordsOf(flat, l)
    /\ \A l \in Labels :
           (\E i \in 1..Len(file.order) : file.order[i] = l)
               <=> file.entries[l] # <<>>

\* C18: at the end of an extraction run, successful or failed, the derived
\* store holds the complete mapping for the whole input or is exactly as it
\* was before the run; it is never truncated or partial.
C18_AllOrNothing ==
    RunEnded =>
        \/ output_file = output_before
        \/ mpc = "done" /\ CompleteMapping(output_file)

Institute == PyStr(<<"I", "I", "T">>)

\* Raw Records as the script distinguishes them: an institute in a Data
\* Item, a Data Item without one, one with an empty one, an institute in
\* the Raw Record itself, a Data Item that is null, and an institute that
\* cannot be encoded.
AuthorEntries ==
    { Dict(("Serial No." :> PyInt(1))
           @@ ("Data" :> List(<<Dict("Authors Institute" :> Institute)>>))),
      Dict(("Serial No." :> PyInt(2))
           @@ ("Data" :> List(<<TitaniumItem>>))),
      Dict(("Serial No." :> PyInt(3))
           @@ ("Data" :> List(<<Dict("Authors Institute" :> EmptyString),
                                Dict("Authors Institute" :> Institute)>>))),
      Dict(("Serial No." :> PyInt(4)) @@ ("Authors Institute" :> Institute)),
      Dict(("Serial No." :> PyInt(5)) @@ ("Data" :> List(<<PyNone>>))),
      Dict("Data" :> List(<<Dict("Authors Institute"
                                     :> PyStr(<<Surrogate>>))>>)) }

\* One element of authors_institutes (lines 27-30 and 35-38).
AuthorRecord(serial, institute) ==
    [serial |-> serial, institute |-> institute]

\* Lines 23-38 for one Raw Record: the records it adds.
RECURSIVE InstitutesOfItems(_, _)
InstitutesOfItems(serial, items) ==
    IF items = <<>>
    THEN <<>>
    ELSE LET authors_institute == Get(Head(items), "Authors Institute", EmptyString)
         IN (IF Truthy(authors_institute)
             THEN <<AuthorRecord(serial, authors_institute)>>
             ELSE <<>>)
            \o InstitutesOfItems(serial, Tail(items))

InstitutesOfEntry(entry) ==
    IF "Data" \in DOMAIN entry.f /\ entry.f["Data"].t = "list"
    THEN InstitutesOfItems(serial_no(entry), entry.f["Data"].f)
    ELSE LET authors_institute == Get(entry, "Authors Institute", EmptyString)
         IN IF Truthy(authors_institute)
            THEN <<AuthorRecord(serial_no(entry), authors_institute)>>
            ELSE <<>>

\* Line 25 raises AttributeError when a Data Item is not a mapping.
EntryRaises(entry) ==
    /\ "Data" \in DOMAIN entry.f
    /\ entry.f["Data"].t = "list"
    /\ \E k \in 1..Len(entry.f["Data"].f) : ~IsDict(entry.f["Data"].f[k])

\* Lines 9-40: extract_authors_institutes on a loaded input.
RECURSIVE extract_authors_institutes(_)
extract_authors_institutes(content) ==
    IF content = <<>>
    THEN <<>>
    ELSE InstitutesOfEntry(Head(content))
         \o extract_authors_institutes(Tail(content))

\* Line 51: json.dump can encode every string of the list.
AuthorsEncodable(list) ==
    \A k \in 1..Len(list) :
        /\ list[k].institute.t = "str" => ~HasChar(list[k].institute.s, Surrogate)
        /\ list[k].serial.t = "str" => ~HasChar(list[k].serial.s, Surrogate)

AuthorsList(list) == [state |-> "complete", items |-> list]
AuthorsAbsent == [state |-> "absent", items |-> <<>>]
AuthorsEmpty == [state |-> "empty", items |-> <<>>]
AuthorsPartial == [state |-> "partial", items |-> <<>>]

InitAuthors ==
    /\ \/ authors_input \in {[state |-> "missing", content |-> <<>>],
                            [state |-> "malformed", content |-> <<>>]}
       \/ \E n \in 0..MaxEntries : \E content \in [1..n -> AuthorEntries] :
              authors_input = [state |-> "ok", content |-> content]
    /\ authors_file \in {AuthorsAbsent,
                         AuthorsList(<<AuthorRecord(PyInt(9), Institute)>>)}
    /\ authors_institutes = <<>>
    /\ authors_message = ""
    /\ authors_exit = -1
    /\ apc = "start"
    /\ AuthorsOthersIdle

\* Line 46 with lines 63-68: the input is loaded and scanned; any exception
\* is caught in main, which prints an error and returns, so that the script
\* ends with exit status 0.
ExtractAuthors ==
    /\ apc = "start"
    /\ IF authors_input.state = "missing"
       THEN /\ authors_message' = "Error: WAAM.json file not found"
            /\ authors_exit' = 0
            /\ apc' = "ended"
            /\ UNCHANGED authors_institutes
       ELSE IF authors_input.state = "malformed"
       THEN /\ authors_message' = "Error: Invalid JSON format in WAAM.json"
            /\ authors_exit' = 0
            /\ apc' = "ended"
            /\ UNCHANGED authors_institutes
       ELSE IF \E k \in 1..Len(authors_input.content) :
                   EntryRaises(authors_input.content[k])
       THEN /\ authors_message' = "Error: 'NoneType' object has no attribute 'get'"
            /\ authors_exit' = 0
            /\ apc' = "ended"
            /\ UNCHANGED authors_institutes
       ELSE /\ authors_institutes' = extract_authors_institutes(authors_input.content)
            /\ apc' = "extracted"
            /\ UNCHANGED <<authors_message, authors_exit>>
    /\ UNCHANGED <<authors_input, authors_file, AuthorsOthers>>

\* Lines 49-50: the output file is opened for writing, which empties it, or
\* cannot be opened (an OSError other than FileNotFoundError).
OpenAuthorsFile ==
    /\ apc = "extracted"
    /\ \/ /\ authors_file' = AuthorsEmpty
          /\ apc' = "write"
          /\ UNCHANGED <<authors_message, authors_exit>>
       \/ /\ authors_message' = "Error: Permission denied"
          /\ authors_exit' = 0
          /\ apc' = "ended"
          /\ UNCHANGED authors_file
    /\ UNCHANGED <<authors_input, authors_institutes, AuthorsOthers>>

\* Lines 51-68: the list is written and the preview printed, or json.dump
\* fails part-way and the error is printed.
WriteAuthorsFile ==
    /\ apc = "write"
    /\ IF AuthorsEncodable(authors_institutes)
       THEN /\ authors_file' = AuthorsList(authors_institutes)
            /\ UNCHANGED authors_message
       ELSE /\ authors_file' = AuthorsPartial
            /\ authors_message' = "Error: 'utf-8' codec can't encode character"
    /\ authors_exit' = 0
    /\ apc' = "ended"
    /\ UNCHANGED <<authors_input, authors_institutes, AuthorsOthers>>

NextAuthors ==
    \/ ExtractAuthors
    \/ OpenAuthorsFile
    \/ WriteAuthorsFile

SpecAuthors == InitAuthors /\ [][NextAuthors]_vars

\* C17 for extract_authors_institutes.py: once the run has ended on a missing
\* or malformed input, an error was printed, the exit status is not 0 and
\* the output file was not written.
C17_LoadFailureFatal ==
    (apc = "ended" /\ authors_input.state \in {"missing", "malformed"})
        => /\ authors_message # ""
           /\ authors_exit # 0
           /\ authors_file.state \in {"absent", "complete"}
           /\ authors_institutes = <<>>

(***************************************************************************)
(* extract_strength_data on its own: one call on a strength object.         *)
(***************************************************************************)
\* Values of a strength block: texts with and without markers, a marker
\* without a number after it, a range, a later second marker, "", null and
\* numbers.
BlockValues ==
    {PyStr(<<"U", "T", "S", ":", " ", "4", "5", "0", ",", " ", "E", "l", "o", "n", "g", "a", "t", "i", "o", "n", ":", " ", "1", "2">>),
     PyStr(<<"u", "t", "s", " ", "9", "0", "0", " ", "E", "L", "O", "N", "G", "A", "T", "I", "O", "N", ":", "1", "0">>),
     PyStr(<<"U", "T", "S", " ", "(", "M", "P", "a", ")", " ", "4", "5", "0">>),
     PyStr(<<"E", "l", "o", "n", "g", "a", "t", "i", "o", "n", " ", "8", "-", "1", "0">>),
     PyStr(<<"U", "T", "S", " ", "-", " ", "4", "5", "0">>),
     PyStr(<<"U", "T", "S", "=", "5", " ", "u", "t", "s", ":", " ", "7", ".">>),
     PyStr(<<"y", "i", "e", "l", "d", " ", "3", "0", "0">>),
     PyStr(<<"E", "l", "o", "n", "g", ".", " ", "1", "2", " ", "U", "t", "s", ":", ":", " ", " ", "6", "0">>),
     EmptyString, PyNone, PyInt(450), PyInt(0)}

\* Strength objects: each block absent or one of BlockValues, or a value that
\* is not a mapping.
StrengthObjects ==
    {Dict([k \in keys |-> IF k = "At WAAM Deposition" THEN w ELSE b]) :
        keys \in SUBSET {"At WAAM Deposition", "At Base Material"},
        w \in BlockValues, b \in BlockValues}
    \cup {PyStr(<<"n", "/", "a">>), PyNone}

InitStrength ==
    /\ strength_in \in StrengthObjects
    /\ strength_ret = <<>>
    /\ spc = "call"
    /\ StrengthOthersIdle

\* One call of extract_strength_data on strength_in.
ExtractStrength ==
    /\ spc = "call"
    /\ strength_ret' = extract_strength_data(strength_in)
    /\ spc' = "done"
    /\ UNCHANGED <<strength_in, StrengthOthers>>

NextStrength == ExtractStrength

SpecStrength == InitStrength /\ [][NextStrength]_vars

(***************************************************************************)
(* Claims about extract_strength_data, checked under SpecStrength.          *)
(***************************************************************************)
\* <<i, p, q>>: the marker stands at i (in any case), only colons and
\* whitespace lie between it and p, and p..q is a maximal run of digits, dots
\* and minus signs.
MarkedTokens(s, marker) ==
    {t \in (1..Len(s)) \X (1..Len(s)) \X (1..Len(s)) :
        /\ t[1] + Len(marker) <= t[2]
        /\ t[2] <= t[3]
        /\ Lower(SubSeq(s, t[1], t[1] + Len(marker) - 1)) = marker
        /\ \A x \in (t[1] + Len(marker))..(t[2] - 1) : s[x] \in {":", " "}
        /\ \A x \in t[2]..t[3] : s[x] \in NumberChars
        /\ (t[3] < Len(s) => s[t[3] + 1] \notin NumberChars)}

\* The extractor's result on the token after the leftmost marker that has
\* one, "" when no marker has one.
FieldOf(s, marker) ==
    IF MarkedTokens(s, marker) = {} THEN EmptyString
    ELSE LET t == CHOOSE u \in MarkedTokens(s, marker) :
                      \A w \in MarkedTokens(s, marker) : u[1] <= w[1]
         IN Extracted(PyStr(SubSeq(s, t[2], t[3])))

\* The text of a strength block: "" when the block is absent or empty.
BlockOf(name) ==
    IF IsDict(strength_in) /\ name \in DOMAIN strength_in.f
    THEN BlockText(strength_in.f[name])
    ELSE <<>>

ScenarioBlock == <<"U", "T", "S", ":", " ", "4", "5", "0", ",", " ", "E", "l", "o", "n", "g", "a", "t", "i", "o", "n", ":", " ", "1", "2">>

\* C13: strength extraction: each of the four fields (UTS of the WAAM block,
\* UTS of the base-material block, elongation of the WAAM block, elongation
\* of the base-material block) is the extractor's result on the numeric
\* token that follows its marker (in any case) in its own block; the block "UTS: 450, Elongation: 12" under "At WAAM Deposition"
\* gives UTS(WAAM) = 450.0 and Elong(WAAM) = 12.0; an absent or empty block
\* leaves both of its fields "", whatever the other block holds, and a block
\* without the marker leaves that field "".
C13_StrengthFields ==
    spc = "done" =>
        /\ Len(strength_ret) = 4
        /\ \A i \in 1..4 :
               LET text == BlockOf(IF i \in {1, 3} THEN "At WAAM Deposition"
                                                   ELSE "At Base Material")
                   marker == IF i \in {1, 2} THEN <<"u", "t", "s">>
                                             ELSE Lower(<<"E", "l", "o", "n", "g", "a", "t", "i", "o", "n">>)
               IN /\ strength_ret[i] = FieldOf(text, marker)
                  /\ text = <<>> => strength_ret[i] = EmptyString
                  /\ ~Contains(Lower(text), marker)
                        => strength_ret[i] = EmptyString
        /\ BlockOf("At WAAM Deposition") = ScenarioBlock
              => /\ strength_ret[1] = PyFloat(450, 1)
                 /\ strength_ret[3] = PyFloat(12, 1)

\* C13 witness: the scenario block under "At WAAM Deposition" with a
\* base-material block that has no UTS marker: the WAAM fields are 450.0 and
\* 12.0, the base-material fields "" and 9.0.
C13_Witness ==
    /\ spc = "done"
    /\ BlockOf("At WAAM Deposition") = ScenarioBlock
    /\ BlockOf("At Base Material") = <<"E", "l", "o", "n", "g", "a", "t", "i", "o", "n", " ", "8", "-", "1", "0">>
    /\ strength_ret = <<PyFloat(450, 1), EmptyString, PyFloat(12, 1), PyFloat(9, 1)>>

(***************************************************************************)
(* The plotting entry points (src/*_plot.py).  A table is a sequence of     *)
(* rows [index, Alloy_Type, x, y]: the row's label in the DataFrame index,  *)
(* its category and its two numeric columns; boolean-mask indexing keeps    *)
(* the rows whose mask is true, in order.                                   *)
(***************************************************************************)
Scripts ==
    {"elong_waam_vs_elong_bm_plot", "heat_input_vs_bead_height_plot",
     "heat_input_vs_travel_speed_plot", "power_vs_travel_speed_plot",
     "uts_waam_vs_uts_bm_plot"}

\* Lines 24-25 of each script: the two Flat Record fields it plots.
XColumn ==
       ("elong_waam_vs_elong_bm_plot" :> "Elong(WAAM)(%)")
    @@ ("heat_input_vs_bead_height_plot" :> "Heat Input (kJ/mm)")
    @@ ("heat_input_vs_travel_speed_plot" :> "Heat Input (kJ/mm)")
    @@ ("power_vs_travel_speed_plot" :> "Power(kW)")
    @@ ("uts_waam_vs_uts_bm_plot" :> "UTS(WAAM)(MPa)")

YColumn ==
       ("elong_waam_vs_elong_bm_plot" :> "Elong(BM)(%)")
    @@ ("heat_input_vs_bead_height_plot" :> "Bead Height(mm)")
    @@ ("heat_input_vs_travel_speed_plot" :> "Travel Speed (mm/s)")
    @@ ("power_vs_travel_speed_plot" :> "Travel Speed (mm/s)")
    @@ ("uts_waam_vs_uts_bm_plot" :> "UTS(BM)(MPa)")

\* Python's <= and < on floats (false when either side is nan).
Le(a, b) ==
    CASE a.t = "nan" \/ b.t = "nan" -> FALSE
      [] a.t = "inf" -> a.n = -1 \/ (b.t = "inf" /\ b.n = 1)
      [] b.t = "inf" -> b.n = 1
      [] OTHER -> a.n * b.d <= b.n * a.d

Lt(a, b) == a.t /= "nan" /\ b.t /= "nan" /\ ~Le(b, a)

\* a - b and a * (n / d) on floats (d > 0).
FloatNeg(a) == IF a.t = "nan" THEN a ELSE [a EXCEPT !.n = -a.n]
FloatSub(a, b) == FloatAdd(a, FloatNeg(b))
FloatMul(a, n, d) ==
    CASE IsFinite(a) -> PyFloat(a.n * n, a.d * d)
      [] a.t = "inf" /\ n /= 0 -> PyInf(IF n > 0 THEN a.n ELSE -a.n)
      [] OTHER -> PyNaN

\* pd.to_numeric(value, errors='coerce'): a number stays, a numeric string is
\* parsed, anything else becomes nan.
ToNumeric(v) ==
    CASE v.t = "int" -> PyFloat(v.n, 1)
      [] v.t \in {"float", "nan", "inf"} -> v
      [] v.t = "str" -> ParseFloat(v.s).v
      [] OTHER -> PyNaN

\* Lines 15-19: the entries of all categories in key order, each with its
\* category key as Alloy_Type.
RECURSIVE all_data(_, _)
all_data(order, entries) ==
    IF order = <<>> THEN <<>>
    ELSE [k \in 1..Len(entries[Head(order)]) |->
             [Alloy_Type |-> Head(order), entry |-> entries[Head(order)][k]]]
         \o all_data(Tail(order), entries)

\* Rows(t, keep): the rows of table t whose position satisfies keep.
RECURSIVE MaskFrom(_, _, _)
MaskFrom(t, mask, k) ==
    IF k > Len(t) THEN <<>>
    ELSE (IF mask[k] THEN <<t[k]>> ELSE <<>>) \o MaskFrom(t, mask, k + 1)

Mask(t, mask) == MaskFrom(t, mask, 1)

\* load_and_clean_data dropping a row only when both columns are nan.
load_and_clean_data_how_all(s, st) ==
    LET all == all_data(st.order, st.entries)
        table == [k \in 1..Len(all) |->
                     [index |-> k - 1,
                      Alloy_Type |-> all[k].Alloy_Type,
                      x |-> ToNumeric(all[k].entry[XColumn[s]]),
                      y |-> ToNumeric(all[k].entry[YColumn[s]])]]
    IN Mask(table, [k \in 1..Len(table) |->
                       table[k].x.t /= "nan" \/ table[k].y.t /= "nan"])

\* Lines 9-30: load_and_clean_data of script s on the store content st.
load_and_clean_data(s, st) ==
    LET all == all_data(st.order, st.entries)
        table == [k \in 1..Len(all) |->
                     [index |-> k - 1,
                      Alloy_Type |-> all[k].Alloy_Type,
                      x |-> ToNumeric(all[k].entry[XColumn[s]]),
                      y |-> ToNumeric(all[k].entry[YColumn[s]])]]
    IN Mask(table, [k \in 1..Len(table) |->
                       table[k].x.t /= "nan" /\ table[k].y.t /= "nan"])

\* The values of column c ("x" or "y") of table t.
Column(t, c) == [k \in 1..Len(t) |-> IF c = "x" THEN t[k].x ELSE t[k].y]

\* Series.quantile(num / 4) with linear interpolation; nan on an empty
\* column.
Quantile(vals, num) ==
    IF vals = <<>> THEN PyNaN
    ELSE LET sorted == SortSeq(vals, Lt)
             lo == ((Len(vals) - 1) * num) \div 4
             r == ((Len(vals) - 1) * num) % 4
         IN IF r = 0 THEN sorted[lo + 1]
            ELSE FloatAdd(sorted[lo + 1],
                          FloatMul(FloatSub(sorted[lo + 2], sorted[lo + 1]), r, 4))

\* The factor 1.5 in every script.
IqrFactorSame(s) == <<3, 2>>

\* The factor of lines 38-39 as <<numerator, denominator>>: 1.2 for the
\* Heat-Input/Travel-Speed script, 1.5 for the others.
IqrFactor(s) ==
    IF s = "heat_input_vs_travel_speed_plot" THEN <<6, 5>> ELSE <<3, 2>>

\* Lines 32-42: detect_outliers_iqr of script s on a column: the bounds and
\* the number of outliers.
detect_outliers_iqr(s, vals) ==
    LET Q1 == Quantile(vals, 1)
        Q3 == Quantile(vals, 3)
        IQR == FloatSub(Q3, Q1)
        lower_bound == FloatSub(Q1, FloatMul(IQR, IqrFactor(s)[1], IqrFactor(s)[2]))
        upper_bound == FloatAdd(Q3, FloatMul(IQR, IqrFactor(s)[1], IqrFactor(s)[2]))
    IN [lower |-> lower_bound, upper |-> upper_bound,
        outliers |-> Cardinality({k \in 1..Len(vals) :
                         Lt(vals[k], lower_bound) \/ Lt(upper_bound, vals[k])})]

\* The threshold of the detect_outliers_zscore calls of script s as
\* <<numerator, denominator>>: 4.0, 2.5 or 3.
ZThreshold(s) ==
    CASE s = "heat_input_vs_bead_height_plot" -> <<4, 1>>
      [] s = "heat_input_vs_travel_speed_plot" -> <<5, 2>>
      [] OTHER -> <<3, 1>>

\* x * p > y * q for naturals x, y and positive p, q, without forming the
\* products of the large numbers.
ExceedsRatio(x, y, p, q) ==
    LET a == y \div p
        b == y % p
        rest == x - a * q
    IN IF rest <= 0 THEN FALSE
       ELSE IF rest >= q THEN TRUE
       ELSE rest * p > b * q

\* Lines 44-48: detect_outliers_zscore of script s on a column: the positions
\* where |x - mean| / std exceeds the threshold, std being the population
\* standard deviation.  With N the length, D[k] = N * x[k] - sum(x) and
\* SS = sum(D[k] ^ 2), |z[k]| > t holds exactly when N * D[k] ^ 2 > t ^ 2 * SS;
\* with std = 0 or a value that is not finite every z is nan and nothing is
\* flagged.
detect_outliers_zscore(s, vals) ==
    IF vals = <<>> \/ \E k \in 1..Len(vals) : ~IsFinite(vals[k])
    THEN {}
    ELSE LET N == Len(vals)
             total == Sum(vals)
             D == [k \in 1..N |-> FloatSub(FloatMul(vals[k], N, 1), total)]
             squares == [k \in 1..N |-> PyFloat(D[k].n * D[k].n, D[k].d * D[k].d)]
             SS == Sum(squares)
             tn == ZThreshold(s)[1]
             td == ZThreshold(s)[2]
         IN IF SS.n = 0 THEN {}
            ELSE {k \in 1..N :
                     ExceedsRatio(squares[k].n * SS.d, SS.n * squares[k].d,
                                  N * td * td, tn * tn)}

\* The scripts whose handle_outliers has a manual stage (lines 56-61) and
\* prints the number of rows after it.
ManualScripts == Scripts \ {"power_vs_travel_speed_plot"}

\* What handle_outliers of script s reports before the statistics: the
\* number of rows after the manual stage (-1 when the script has no such
\* line) and, for every constrained column, the number of z-score outliers.
Report(s, filtered, columns) ==
    [manual |-> IF s \in ManualScripts THEN Len(filtered) ELSE -1,
     zscore |-> [c \in columns |->
                    Cardinality(detect_outliers_zscore(s, Column(filtered, c)))]]

\* Lines 56-60 of handle_outliers: the manual domain bound of script s on a
\* row (power_vs_travel_speed_plot has none).
ManualBound(s, row) ==
    CASE s = "elong_waam_vs_elong_bm_plot" ->
            /\ Le(row.x, PyFloat(50, 1)) /\ Le(row.y, PyFloat(50, 1))
            /\ Le(PyFloat(0, 1), row.x) /\ Le(PyFloat(0, 1), row.y)
      [] s = "heat_input_vs_bead_height_plot" ->
            /\ Le(row.x, PyFloat(2000, 1)) /\ Le(row.y, PyFloat(50, 1))
            /\ Le(PyFloat(1, 100), row.y)
      [] s = "heat_input_vs_travel_speed_plot" ->
            /\ Le(row.x, PyFloat(150, 1)) /\ Le(PyFloat(3, 2), row.y)
      [] s = "uts_waam_vs_uts_bm_plot" ->
            /\ Le(row.x, PyFloat(2000, 1)) /\ Le(row.y, PyFloat(2000, 1))
            /\ Le(PyFloat(0, 1), row.x) /\ Le(PyFloat(0, 1), row.y)
      [] OTHER -> TRUE

\* Both columns constrained in every script.
ConstrainedBoth(s) == {"x", "y"}

\* The columns handle_outliers of script s applies the IQR bounds to.
Constrained(s) ==
    IF s \in {"heat_input_vs_travel_speed_plot", "power_vs_travel_speed_plot"}
    THEN {"x", "y"} ELSE {"x"}

\* Series.min(), .max() and .mean(): nan on an empty column.
RECURSIVE Least(_)
Least(vals) ==
    IF Len(vals) = 1 THEN vals[1]
    ELSE IF Lt(Least(Tail(vals)), vals[1]) THEN Least(Tail(vals)) ELSE vals[1]

RECURSIVE Greatest(_)
Greatest(vals) ==
    IF Len(vals) = 1 THEN vals[1]
    ELSE IF Lt(vals[1], Greatest(Tail(vals))) THEN Greatest(Tail(vals)) ELSE vals[1]

Min(vals) == IF vals = <<>> THEN PyNaN ELSE Least(vals)
Max(vals) == IF vals = <<>> THEN PyNaN ELSE Greatest(vals)
Mean(vals) == IF vals = <<>> THEN PyNaN ELSE FloatDiv(Sum(vals), Len(vals))

\* f"{v:.2f}" and f"{v:.3f}": "nan", "inf" or the decimal rounded half to even
\* to k places.
Format(v, k) ==
    CASE v.t = "nan" -> <<"n", "a", "n">>
      [] v.t = "inf" -> (IF v.n < 0 THEN <<"-">> ELSE <<>>) \o <<"i", "n", "f">>
      [] OTHER ->
          LET scaled == Abs(v.n) * Pow10(k)
              q == scaled \div v.d
              r == scaled % v.d
              up == 2 * r > v.d \/ (2 * r = v.d /\ q % 2 = 1)
              m == IF up THEN q + 1 ELSE q
              frac == NatToDigits(m % Pow10(k))
          IN (IF v.n < 0 THEN <<"-">> ELSE <<>>)
             \o NatToDigits(m \div Pow10(k)) \o <<".">>
             \o [i \in 1..(k - Len(frac)) |-> "0"] \o frac

\* Lines 77-86 of handle_outliers: the six statistics it prints.
Statistics(t) ==
    << Format(Min(Column(t, "x")), 2), Format(Max(Column(t, "x")), 2),
       Format(Mean(Column(t, "x")), 2),
       Format(Min(Column(t, "y")), 2), Format(Max(Column(t, "y")), 2),
       Format(Mean(Column(t, "y")), 2) >>

\* handle_outliers with the IQR mask applied to the input table instead of
\* the manually bounded rows.
handle_outliers_mask_df(s, t) ==
    LET filtered == Mask(t, [k \in 1..Len(t) |-> ManualBound(s, t[k])])
        bounds == [c \in Constrained(s) |->
                      detect_outliers_iqr(s, Column(filtered, c))]
        inside(row) ==
            \A c \in Constrained(s) :
                /\ Le(bounds[c].lower, IF c = "x" THEN row.x ELSE row.y)
                /\ Le(IF c = "x" THEN row.x ELSE row.y, bounds[c].upper)
        no_outliers == Mask(t, [k \in 1..Len(t) |-> inside(t[k])])
    IN [df_filtered |-> filtered, bounds |-> bounds,
        df_no_outliers |-> no_outliers, statistics |-> Statistics(no_outliers),
        report |-> Report(s, filtered, Constrained(s))]

\* handle_outliers with the quartiles taken over the input table instead of
\* the manually bounded rows.
handle_outliers_bounds_df(s, t) ==
    LET filtered == Mask(t, [k \in 1..Len(t) |-> ManualBound(s, t[k])])
        bounds == [c \in Constrained(s) |->
                      detect_outliers_iqr(s, Column(t, c))]
        inside(row) ==
            \A c \in Constrained(s) :
                /\ Le(bounds[c].lower, IF c = "x" THEN row.x ELSE row.y)
                /\ Le(IF c = "x" THEN row.x ELSE row.y, bounds[c].upper)
        no_outliers == Mask(filtered, [k \in 1..Len(filtered) |-> inside(filtered[k])])
    IN [df_filtered |-> filtered, bounds |-> bounds,
        df_no_outliers |-> no_outliers, statistics |-> Statistics(no_outliers),
        report |-> Report(s, filtered, Constrained(s))]

\* handle_outliers dropping the rows flagged by the z-score as well.
handle_outliers_zscore(s, t) ==
    LET filtered == Mask(t, [k \in 1..Len(t) |-> ManualBound(s, t[k])])
        bounds == [c \in Constrained(s) |->
                      detect_outliers_iqr(s, Column(filtered, c))]
        flagged == UNION {detect_outliers_zscore(s, Column(filtered, c)) :
                             c \in Constrained(s)}
        inside(row) ==
            \A c \in Constrained(s) :
                /\ Le(bounds[c].lower, IF c = "x" THEN row.x ELSE row.y)
                /\ Le(IF c = "x" THEN row.x ELSE row.y, bounds[c].upper)
        no_outliers == Mask(filtered, [k \in 1..Len(filtered) |->
                                          inside(filtered[k]) /\ k \notin flagged])
    IN [df_filtered |-> filtered, bounds |-> bounds,
        df_no_outliers |-> no_outliers, statistics |-> Statistics(no_outliers),
        report |-> Report(s, filtered, Constrained(s))]

\* handle_outliers of script s on table t: the manually bounded rows, the IQR
\* bounds of the constrained columns, the returned rows and the printed
\* statistics.
handle_outliers(s, t) ==
    LET filtered == Mask(t, [k \in 1..Len(t) |-> ManualBound(s, t[k])])
        bounds == [c \in Constrained(s) |->
                      detect_outliers_iqr(s, Column(filtered, c))]
        inside(row) ==
            \A c \in Constrained(s) :
                /\ Le(bounds[c].lower, IF c = "x" THEN row.x ELSE row.y)
                /\ Le(IF c = "x" THEN row.x ELSE row.y, bounds[c].upper)
        no_outliers == Mask(filtered, [k \in 1..Len(filtered) |-> inside(filtered[k])])
    IN [df_filtered |-> filtered, bounds |-> bounds,
        df_no_outliers |-> no_outliers, statistics |-> Statistics(no_outliers),
        report |-> Report(s, filtered, Constrained(s))]

\* The categories of table t in order of first appearance:
\* df['Alloy_Type'].unique().
RECURSIVE Unique(_, _)
Unique(t, seen) ==
    IF t = <<>> THEN <<>>
    ELSE IF Head(t).Alloy_Type \in seen THEN Unique(Tail(t), seen)
    ELSE <<Head(t).Alloy_Type>>
         \o Unique(Tail(t), seen \cup {Head(t).Alloy_Type})

\* The scripts whose summary prints the ratio of the two means.
RatioScripts == {"elong_waam_vs_elong_bm_plot", "uts_waam_vs_uts_bm_plot"}

\* a / b on finite floats, b > 0.
FloatQuot(a, b) == PyFloat(a.n * b.d, a.d * b.n)

\* print_data_summary of script s on table t: one block per category of t,
\* with the ratio line where the script has one and the mean of y is > 0.
print_data_summary(s, t) ==
    LET cats == Unique(t, {})
    IN [i \in 1..Len(cats) |->
          LET alloy_data_i == Mask(t, [k \in 1..Len(t) |-> t[k].Alloy_Type = cats[i]])
              xs == Column(alloy_data_i, "x")
              ys == Column(alloy_data_i, "y")
          IN [Alloy_Type |-> cats[i],
              points |-> Len(alloy_data_i),
              x_range |-> <<Format(Min(xs), 2), Format(Max(xs), 2)>>,
              y_range |-> <<Format(Min(ys), 2), Format(Max(ys), 2)>>,
              x_mean |-> Format(Mean(xs), 2),
              y_mean |-> Format(Mean(ys), 2),
              ratio |-> IF s \in RatioScripts /\ Lt(PyFloat(0, 1), Mean(ys))
                        THEN Format(FloatQuot(Mean(xs), Mean(ys)), 3)
                        ELSE <<>>]]

\* The image file each script saves its figure to (plt.savefig).
ImageFileShared ==
    [s \in Scripts |-> "plot.png"]

ImageFile ==
    [s \in Scripts |-> s \o ".png"]

ImageFiles == {ImageFile[s] : s \in Scripts} \cup {"plot.png"}

(***************************************************************************)
(* Derived stores for the plotting scripts: up to MaxRows Flat Records      *)
(* drawn from seven kinds, listed kind by kind.  In a record of a kind      *)
(* every script's x field holds a and every script's y field holds b.       *)
(***************************************************************************)
PlotRecord(a, b) ==
    [key \in FlatKeys |->
        IF key \in {XColumn[s] : s \in Scripts} THEN a
        ELSE IF key \in {YColumn[s] : s \in Scripts} THEN b
        ELSE IF key = "Serial No." THEN PyInt(1)
        ELSE EmptyString]

RecordKinds ==
    << [type |-> "Titanium Alloys", entry |-> PlotRecord(PyFloat(1, 1), PyFloat(2, 1))],
       [type |-> "Steel Alloys", entry |-> PlotRecord(PyFloat(40, 1), PyFloat(2, 1))],
       [type |-> "Steel Alloys", entry |-> PlotRecord(PyFloat(5000, 1), PyFloat(2, 1))],
       [type |-> "Titanium Alloys", entry |-> PlotRecord(PyFloat(1, 1), PyFloat(0, 1))],
       [type |-> "Titanium Alloys", entry |-> PlotRecord(PyFloat(1, 1), PyFloat(60, 1))],
       [type |-> "Aluminum Alloys", entry |-> PlotRecord(EmptyString, PyFloat(2, 1))],
       [type |-> "Aluminum Alloys", entry |-> PlotRecord(PyFloat(1, 1), PyStr(<<"-">>))] >>

\* The store main writes for a sequence of labelled Flat Records.
RECURSIVE StoreOf(_)
StoreOf(recs) ==
    IF recs = <<>>
    THEN JsonFile(<<>>, NoEntries)
    ELSE LET rest == StoreOf(SubSeq(recs, 1, Len(recs) - 1))
             last == recs[Len(recs)]
         IN JsonFile(IF \E k \in 1..Len(rest.order) : rest.order[k] = last.type
                     THEN rest.order
                     ELSE Append(rest.order, last.type),
                     AppendEntry(rest.entries, last.type, last.entry))

NoStore == AbsentFile

NoImage == [kind |-> "absent", rows |-> <<>>]
PartialImage == [kind |-> "partial", rows |-> <<>>]

\* The store used when all five scripts run side by side.
SharedStores ==
    {NoStore, PartialFile, StoreOf(<<>>),
     StoreOf(<<RecordKinds[1], RecordKinds[1], RecordKinds[1], RecordKinds[2],
               RecordKinds[3], RecordKinds[6]>>)}

\* A store of 21 records whose first column holds ten times 0, ten times 10
\* and once 22: the quartiles are 0 and 10, so that 22 is the upper IQR bound
\* for the factor 1.2 and inside it for 1.5, and its z-score is 2.67.
WideStore ==
    StoreOf([k \in 1..21 |->
                [type |-> IF k <= 10 THEN "Titanium Alloys" ELSE "Steel Alloys",
                 entry |-> PlotRecord(PyFloat(IF k <= 10 THEN 0
                                              ELSE IF k <= 20 THEN 10 ELSE 22, 1),
                                      PyFloat(2, 1))]])

\* Either one script runs on any store of up to MaxRows records or on the
\* wide store, or all five scripts run side by side on one of the shared
\* stores.
InitPlot ==
    /\ \/ \E s0 \in Scripts : \E n \in 0..MaxRows :
            \E kinds \in [1..n -> 1..Len(RecordKinds)] :
              /\ \A k \in 1..(n - 1) : kinds[k] <= kinds[k + 1]
              /\ store = StoreOf([k \in 1..n |-> RecordKinds[kinds[k]]])
              /\ plot_pc = [s \in Scripts |-> IF s = s0 THEN "start" ELSE "off"]
       \/ \E s0 \in Scripts :
              /\ store = WideStore
              /\ plot_pc = [s \in Scripts |-> IF s = s0 THEN "start" ELSE "off"]
       \/ /\ store \in SharedStores
          /\ plot_pc = [s \in Scripts |-> "start"]
    /\ images = [f \in ImageFiles |-> NoImage]
    /\ df = [s \in Scripts |-> <<>>]
    /\ df_filtered = [s \in Scripts |-> <<>>]
    /\ iqr_bounds = [s \in Scripts |-> <<>>]
    /\ df_no_outliers = [s \in Scripts |-> <<>>]
    /\ printed = [s \in Scripts |->
                      [report |-> <<>>, statistics |-> <<>>, summary |-> <<>>]]
    /\ PlotOthersIdle

\* main of script s, load_and_clean_data: a missing store raises
\* FileNotFoundError, an empty or partial one JSONDecodeError, and a store
\* without records KeyError on the first column access; each ends the run.
Load(s) ==
    /\ plot_pc[s] = "start"
    /\ IF \/ store.state # "complete"
          \/ all_data(store.order, store.entries) = <<>>
       THEN /\ plot_pc' = [plot_pc EXCEPT ![s] = "crashed"]
            /\ UNCHANGED df
       ELSE /\ df' = [df EXCEPT ![s] = load_and_clean_data(s, store)]
            /\ plot_pc' = [plot_pc EXCEPT ![s] = "loaded"]
    /\ UNCHANGED <<store, images, df_filtered, iqr_bounds, df_no_outliers,
                   printed, PlotOthers>>

\* main of script s, handle_outliers(df).
HandleOutliers(s) ==
    /\ plot_pc[s] = "loaded"
    /\ \E r \in {handle_outliers(s, df[s])} :
         /\ df_filtered' = [df_filtered EXCEPT ![s] = r.df_filtered]
         /\ iqr_bounds' = [iqr_bounds EXCEPT ![s] = r.bounds]
         /\ df_no_outliers' = [df_no_outliers EXCEPT ![s] = r.df_no_outliers]
         /\ printed' = [printed EXCEPT ![s].statistics = r.statistics,
                                       ![s].report = r.report]
    /\ plot_pc' = [plot_pc EXCEPT ![s] = "filtered"]
    /\ UNCHANGED <<store, images, df, PlotOthers>>

\* main of script s, print_data_summary(df_clean).
PrintDataSummary(s) ==
    /\ plot_pc[s] = "filtered"
    /\ printed' = [printed EXCEPT
                      ![s].summary = print_data_summary(s, df_no_outliers[s])]
    /\ plot_pc' = [plot_pc EXCEPT ![s] = "summarised"]
    /\ UNCHANGED <<store, images, df, df_filtered, iqr_bounds, df_no_outliers,
                   PlotOthers>>

\* main of script s, the create_..._plot call: the figure of the returned
\* rows is saved to the script's image file.
CreatePlot(s) ==
    /\ plot_pc[s] = "summarised"
    /\ images' = [images EXCEPT
                     ![ImageFile[s]] = [kind |-> "plot", rows |-> df_no_outliers[s]]]
    /\ plot_pc' = [plot_pc EXCEPT ![s] = "done"]
    /\ UNCHANGED <<store, df, df_filtered, iqr_bounds, df_no_outliers, printed,
                   PlotOthers>>

\* The create_..._plot call raises: before savefig the image file is left as
\* it was, inside savefig it may be left partly written.
RenderFails(s) ==
    /\ plot_pc[s] = "summarised"
    /\ \E img \in {images[ImageFile[s]], PartialImage} :
         images' = [images EXCEPT ![ImageFile[s]] = img]
    /\ plot_pc' = [plot_pc EXCEPT ![s] = "crashed"]
    /\ UNCHANGED <<store, df, df_filtered, iqr_bounds, df_no_outliers, printed,
                   PlotOthers>>

NextPlot ==
    \E s \in Scripts :
        \/ Load(s)
        \/ HandleOutliers(s)
        \/ PrintDataSummary(s)
        \/ CreatePlot(s)
        \/ RenderFails(s)

SpecPlot == InitPlot /\ [][NextPlot]_vars

(***************************************************************************)
(* Claims about the Outlier Filter, checked under SpecPlot.                 *)
(***************************************************************************)
\* handle_outliers of script s has returned.
Filtered(s) ==
    \/ plot_pc[s] \in {"filtered", "summarised", "done"}
    \/ plot_pc[s] = "crashed" /\ printed[s].statistics /= <<>>

\* Table a is table b with some rows deleted: every row of a is a row of b,
\* unaltered, and the rows of a keep b's order without repetition.
SubTable(a, b) ==
    /\ \A i \in 1..Len(a) : \E k \in 1..Len(b) : a[i] = b[k]
    /\ \A i \in 1..(Len(a) - 1) : a[i].index < a[i + 1].index

\* C14: Outlier Filter monotonicity: in every script the rows handle_outliers
\* returns are rows that passed the manual bound, and those are rows of its
\* input table; no stage adds, repeats or alters a row.
C14_Monotone ==
    \A s \in Scripts :
        /\ SubTable(df_no_outliers[s], df_filtered[s])
        /\ SubTable(df_filtered[s], df[s])

\* C14 witness: a script in which both stages removed a row and a row
\* survived.
C14_Witness ==
    \E s \in Scripts :
        /\ Filtered(s)
        /\ 0 < Len(df_no_outliers[s])
        /\ Len(df_no_outliers[s]) < Len(df_filtered[s])
        /\ Len(df_filtered[s]) < Len(df[s])

BeadScript == "heat_input_vs_bead_height_plot"

\* The manual bounds of the Heat-Input/Bead-Height filter as the claim
\* states them, on a row with finite values: Heat Input at most 2000,
\* Bead Height at most 50 and at least 0.01.
WithinBeadBounds(row) ==
    /\ row.x.n <= 2000 * row.x.d
    /\ row.y.n <= 50 * row.y.d
    /\ 100 * row.y.n >= row.y.d

\* C15: manual bound of the Heat-Input/Bead-Height filter: after
\* handle_outliers no row outside the manual bounds is among the manually
\* bounded rows or the returned rows, every row inside them is among the
\* manually bounded rows, and the IQR bounds are those of the Heat Input
\* column with the rows outside the manual bounds left out.
C15_ManualBoundFirst ==
    Filtered(BeadScript) =>
        LET t == df[BeadScript]
            kept == Mask(t, [k \in 1..Len(t) |-> WithinBeadBounds(t[k])])
        IN /\ df_filtered[BeadScript] = kept
           /\ \A i \in 1..Len(df_no_outliers[BeadScript]) :
                  WithinBeadBounds(df_no_outliers[BeadScript][i])
           /\ iqr_bounds[BeadScript]["x"]
                  = detect_outliers_iqr(BeadScript, Column(kept, "x"))

\* C15 witness: the Heat-Input/Bead-Height filter ran on a table with a row
\* of Heat Input 5000, dropped it at the manual stage, and computed bounds
\* that differ from those the whole table would give.
C15_Witness ==
    /\ Filtered(BeadScript)
    /\ \E k \in 1..Len(df[BeadScript]) : df[BeadScript][k].x = PyFloat(5000, 1)
    /\ \A k \in 1..Len(df_filtered[BeadScript]) :
           df_filtered[BeadScript][k].x /= PyFloat(5000, 1)
    /\ Len(df_no_outliers[BeadScript]) > 0
    /\ iqr_bounds[BeadScript]["x"]
           /= detect_outliers_iqr(BeadScript, Column(df[BeadScript], "x"))

NaNText == <<"n", "a", "n">>

\* C16: empty-after-filtering: when handle_outliers returns zero rows it
\* prints no NaN-derived statistic.
C16_NoNaNStatistics ==
    \A s \in Scripts :
        (Filtered(s) /\ df_no_outliers[s] = <<>>)
            => \A i \in 1..Len(printed[s].statistics) :
                   printed[s].statistics[i] /= NaNText

\* The rows script s keeps when it runs alone on the derived store.
SurvivingAlone(s) ==
    handle_outliers(s, load_and_clean_data(s, store)).df_no_outliers

\* A step changes the image file of script s only as a step of s itself.
OwnImageOnly ==
    \A s \in Scripts :
        images'[ImageFile[s]] # images[ImageFile[s]] => plot_pc'[s] # plot_pc[s]

\* C19: under every interleaving of the five plotting runs, also when
\* rendering fails, no step changes the derived store, a script's image file
\* is changed by that script only, and each script keeps the rows it keeps
\* when run alone.
C19_Independent ==
    /\ [][store' = store /\ OwnImageOnly]_vars
    /\ [](\A s \in Scripts : Filtered(s) => df_no_outliers[s] = SurvivingAlone(s))

C19_Witness ==
    /\ \A s \in Scripts : plot_pc[s] \in {"done", "crashed"} /\ Filtered(s)
    /\ plot_pc["uts_waam_vs_uts_bm_plot"] = "crashed"
    /\ images[ImageFile["uts_waam_vs_uts_bm_plot"]] = PartialImage
    /\ plot_pc["power_vs_travel_speed_plot"] = "done"
    /\ plot_pc["heat_input_vs_bead_height_plot"] = "done"
    /\ images[ImageFile["power_vs_travel_speed_plot"]].kind = "plot"
    /\ images[ImageFile["power_vs_travel_speed_plot"]].rows
           = SurvivingAlone("power_vs_travel_speed_plot")
    /\ images[ImageFile["power_vs_travel_speed_plot"]].rows
           # images[ImageFile["heat_input_vs_bead_height_plot"]].rows
    /\ SurvivingAlone("heat_input_vs_bead_height_plot") # <<>>

\* Row r is one of the rows of table t.
RowIn(r, t) == \E j \in 1..Len(t) : t[j] = r

\* The value of row r in column c.
Value(r, c) == IF c = "x" THEN r.x ELSE r.y

\* [Q1 - k * IQR, Q3 + k * IQR] of the values vals for k = kn / kd.
QuartileBounds(vals, kn, kd) ==
    LET Q1 == Quantile(vals, 1)
        Q3 == Quantile(vals, 3)
        IQR == FloatSub(Q3, Q1)
    IN [lower |-> FloatSub(Q1, FloatMul(IQR, kn, kd)),
        upper |-> FloatAdd(Q3, FloatMul(IQR, kn, kd))]

\* Row r lies within the bounds of script s in every constrained column.
WithinIqrBounds(s, r) ==
    \A c \in DOMAIN iqr_bounds[s] :
        /\ Le(iqr_bounds[s][c].lower, Value(r, c))
        /\ Le(Value(r, c), iqr_bounds[s][c].upper)

\* C23: in every script the bounds of a constrained column are
\* [Q1 - k * IQR, Q3 + k * IQR] with the quartiles of the manually bounded
\* rows, k = 1.2 for the Heat-Input/Travel-Speed script and 1.5 for the
\* others; a manually bounded row within the bounds, also one on a bound,
\* survives, and every surviving row is within the bounds.
C23_StatisticalBound ==
    \A s \in Scripts :
        Filtered(s) =>
            /\ \A c \in DOMAIN iqr_bounds[s] :
                   LET expected ==
                           IF s = "heat_input_vs_travel_speed_plot"
                           THEN QuartileBounds(Column(df_filtered[s], c), 6, 5)
                           ELSE QuartileBounds(Column(df_filtered[s], c), 3, 2)
                   IN /\ iqr_bounds[s][c].lower = expected.lower
                      /\ iqr_bounds[s][c].upper = expected.upper
            /\ \A k \in 1..Len(df_filtered[s]) :
                   WithinIqrBounds(s, df_filtered[s][k])
                       => RowIn(df_filtered[s][k], df_no_outliers[s])
            /\ \A k \in 1..Len(df_no_outliers[s]) :
                   WithinIqrBounds(s, df_no_outliers[s][k])

\* C23 witness: the Heat-Input/Travel-Speed script has filtered a table of 21
\* rows with quartiles 0 and 10, whose row with Heat Input 22 lies on the
\* upper bound 10 + 1.2 * 10 and survived.
C23_Witness ==
    LET s == "heat_input_vs_travel_speed_plot"
    IN /\ Filtered(s)
       /\ Len(df_filtered[s]) = 21
       /\ iqr_bounds[s]["x"].lower = PyFloat(-12, 1)
       /\ iqr_bounds[s]["x"].upper = PyFloat(22, 1)
       /\ \E k \in 1..Len(df_no_outliers[s]) :
              df_no_outliers[s][k].x = iqr_bounds[s]["x"].upper

\* The value of row r in column c lies within [Q1 - k * IQR, Q3 + k * IQR] of
\* column c of the manually bounded rows of script s.
InsideQuartileBounds(s, r, c) ==
    LET b == IF s = "heat_input_vs_travel_speed_plot"
             THEN QuartileBounds(Column(df_filtered[s], c), 6, 5)
             ELSE QuartileBounds(Column(df_filtered[s], c), 3, 2)
    IN Le(b.lower, Value(r, c)) /\ Le(Value(r, c), b.upper)

\* The scripts that constrain both columns.
BothScripts == {"heat_input_vs_travel_speed_plot", "power_vs_travel_speed_plot"}

\* C24: a manually bounded row survives the statistical stage if and only
\* if every constrained column lies within its bounds: both columns for the
\* Heat-Input/Travel-Speed and Power/Travel-Speed scripts, the first (WAAM)
\* column only for the elongation and UTS scripts, so that there a row
\* survives whatever the position of its base-material value.
C24_ConstrainedColumns ==
    \A s \in Scripts :
        Filtered(s) =>
            /\ \A k \in 1..Len(df_no_outliers[s]) :
                   RowIn(df_no_outliers[s][k], df_filtered[s])
            /\ \A k \in 1..Len(df_filtered[s]) :
                   RowIn(df_filtered[s][k], df_no_outliers[s])
                       <=> /\ InsideQuartileBounds(s, df_filtered[s][k], "x")
                           /\ s \in BothScripts
                                => InsideQuartileBounds(s, df_filtered[s][k], "y")

\* C24 witness: the UTS script kept a row whose base-material value lies
\* outside the quartile bounds of the base-material column.
C24_Witness ==
    LET s == "uts_waam_vs_uts_bm_plot"
    IN /\ Filtered(s)
       /\ Len(df_filtered[s]) = 4
       /\ \E k \in 1..Len(df_no_outliers[s]) :
              /\ ~InsideQuartileBounds(s, df_no_outliers[s][k], "y")
              /\ InsideQuartileBounds(s, df_no_outliers[s][k], "x")

\* The positions of the manually bounded rows of script s that the z-score
\* check of a constrained column flags.
ZFlagged(s) ==
    UNION {detect_outliers_zscore(s, Column(df_filtered[s], c)) :
              c \in DOMAIN iqr_bounds[s]}

\* C25: the z-score check never changes the result: the rows handle_outliers
\* returns are exactly the manually bounded rows within the IQR bounds, and a
\* row flagged by the z-score but within the IQR bounds survives.
C25_ZScoreIgnored ==
    \A s \in Scripts :
        Filtered(s) =>
            /\ \A k \in 1..Len(df_filtered[s]) :
                   RowIn(df_filtered[s][k], df_no_outliers[s])
                       <=> WithinIqrBounds(s, df_filtered[s][k])
            /\ \A k \in ZFlagged(s) :
                   WithinIqrBounds(s, df_filtered[s][k])
                       => RowIn(df_filtered[s][k], df_no_outliers[s])

\* C25 witness: the Heat-Input/Travel-Speed script reported one z-score
\* outlier of Heat Input, the row with 22 (z = 2.67 > 2.5), which lies within
\* the IQR bounds and was returned.
C25_Witness ==
    LET s == "heat_input_vs_travel_speed_plot"
    IN /\ Filtered(s)
       /\ printed[s].report.zscore["x"] = 1
       /\ \E k \in ZFlagged(s) :
              /\ df_filtered[s][k].x = PyFloat(22, 1)
              /\ WithinIqrBounds(s, df_filtered[s][k])
              /\ RowIn(df_filtered[s][k], df_no_outliers[s])

\* C26: every script first drops the rows outside its manual domain bound,
\* reporting how many are left, and only then computes and applies the
\* statistical bound to the rows that remain.
C26_TwoStages ==
    \A s \in Scripts :
        Filtered(s) =>
            /\ printed[s].report.manual = Len(df_filtered[s])
            /\ \A c \in DOMAIN iqr_bounds[s] :
                   iqr_bounds[s][c].outliers
                       = Cardinality({k \in 1..Len(df_filtered[s]) :
                                         ~InsideQuartileBounds(s, df_filtered[s][k], c)})
            /\ \A k \in 1..Len(df_no_outliers[s]) :
                   RowIn(df_no_outliers[s][k], df_filtered[s])

\* The number of records the store holds under the categories before the
\* i-th one.
RECURSIVE RecordsBefore(_, _)
RecordsBefore(st, i) ==
    IF i = 1 THEN 0
    ELSE RecordsBefore(st, i - 1) + Len(st.entries[st.order[i - 1]])

\* A value of the store that is a number (not the empty string, not an
\* unparsed original string).
NumericValue(v) == v.t \in {"int", "float"}

\* Script s has loaded the store, or has failed to load it.
LoadAttempted(s) == plot_pc[s] \notin {"off", "start"}

LoadFailed(s) == plot_pc[s] = "crashed" /\ ~Filtered(s)

\* C27: a Flat Record whose value in either target column is the empty
\* string or an unparsed string never makes the load fail and is not in the
\* loaded table: the table holds, in store order, exactly the records with
\* numbers in both target columns, each with these numbers and with the
\* category key it is stored under as Alloy_Type, and the rows of the later
\* stages are rows of this table.
C27_MissingDropped ==
    \A s \in Scripts :
        (LoadAttempted(s) /\ store.state = "complete"
            /\ \E l \in Labels : store.entries[l] # <<>>)
        => /\ ~LoadFailed(s)
           /\ \A i \in 1..Len(store.order) :
                  \A k \in 1..Len(store.entries[store.order[i]]) :
                      LET rec == store.entries[store.order[i]][k]
                          row == [index |-> RecordsBefore(store, i) + k - 1,
                                  Alloy_Type |-> store.order[i],
                                  x |-> PyFloat(rec[XColumn[s]].n, rec[XColumn[s]].d),
                                  y |-> PyFloat(rec[YColumn[s]].n, rec[YColumn[s]].d)]
                      IN (NumericValue(rec[XColumn[s]]) /\ NumericValue(rec[YColumn[s]]))
                             <=> RowIn(row, df[s])
           /\ \A k \in 1..Len(df[s]) :
                  /\ IsFinite(df[s][k].x) /\ IsFinite(df[s][k].y)
                  /\ k > 1 => df[s][k - 1].index < df[s][k].index
           /\ \A k \in 1..Len(df_filtered[s]) : RowIn(df_filtered[s][k], df[s])
           /\ \A k \in 1..Len(df_no_outliers[s]) : RowIn(df_no_outliers[s][k], df[s])

\* C27 witness: a script has run to its end on a store that holds a record
\* with an empty first value, a record with an unparsed second value and a
\* record with two numbers, of which only the last is in the table.
C27_Witness ==
    \E s \in Scripts :
        /\ plot_pc[s] = "done"
        /\ store.state = "complete"
        /\ Len(store.entries["Aluminum Alloys"]) = 2
        /\ store.entries["Aluminum Alloys"][1][XColumn[s]] = EmptyString
        /\ store.entries["Aluminum Alloys"][2][YColumn[s]] = PyStr(<<"-">>)
        /\ NumericValue(store.entries["Aluminum Alloys"][2][XColumn[s]])
        /\ Len(store.entries["Titanium Alloys"]) = 1
        /\ Len(df[s]) = 1
        /\ df[s][1].Alloy_Type = "Titanium Alloys"
        /\ df_no_outliers[s] = df[s]

====
